---- MODULE Spec2Model ----
(***************************************************************************)
(* Path-discovery scheduler of the data pipeline                           *)
(* (assets/ai_conversations/serendipity_optimized.py), with the request    *)
(* builder and response parser (utils/serendipity.py) and the balance      *)
(* scorer (utils/balance_scores.py).                                       *)
(*                                                                         *)
(* Numbers: balance-score terms are floats in the source.  They are kept   *)
(* here as integers in hundredths (|ln| and 1 - similarity), standardized  *)
(* values in hundredths as well.  float("inf") is kept apart from every    *)
(* finite value by the field "inf" of a score record.                      *)
(***************************************************************************)
EXTENDS Integers, Sequences, FiniteSets, TLC

\* ------------------------------------------------------------------ bounds
MaxSide == 2
NumClusters == 2
NumMatchGroups == 2
MaxPaths == 1
MaxListLen == 2
MaxRecords == 2
MaxItems == 5
MaxCeiling == 4
MaxBudget == 5
NumPeers == 3
MaxSimilarity == 1
MaxPeerItems == 2
MaxPairsBudget == 1
MaxOwnItems == 127
NumPartitions == 3
NumCallers == 3

\* --------------------------------------------------- configuration constants
\* SerendipityOptimizedConfig.match_group_category_ratios, in tenths.
RatioCoding == 0
RatioHumanistic == 7
RatioPractical == 3

Categories == {"coding", "humanistic", "practical"}

match_group_category_ratios(category) ==
    CASE category = "coding" -> RatioCoding
      [] category = "humanistic" -> RatioHumanistic
      [] category = "practical" -> RatioPractical
      [] OTHER -> 0

ClusterIds == 1..NumClusters
\* match_group_id is the position of the peer in top_users (enumerate, from 0).
MatchGroupIds == 0..(NumMatchGroups - 1)

\* Row indices as with_row_count assigns them (from 0): cluster c owns a block
\* of 2 * MaxSide consecutive rows, its current-user rows first.
RowBase(cid) == (cid - 1) * 2 * MaxSide
NumRows == NumClusters * 2 * MaxSide
Rows == 0..(NumRows - 1)

\* ------------------------------------------------------------ sequence helpers
Range(s) == {s[i] : i \in DOMAIN s}

RECURSIVE SeqSum(_)
SeqSum(s) == IF s = <<>> THEN 0 ELSE Head(s) + SeqSum(Tail(s))

RECURSIVE Filter(_, _)
\* [x for x in s if x.row_idx not in excluded]
Filter(s, excluded) ==
    IF s = <<>> THEN <<>>
    ELSE IF Head(s).row_idx \in excluded
         THEN Filter(Tail(s), excluded)
         ELSE <<Head(s)>> \o Filter(Tail(s), excluded)

Abs(x) == IF x < 0 THEN -x ELSE x

Max2(a, b) == IF a > b THEN a ELSE b

RECURSIVE ISqrtIn(_, _, _)
ISqrtIn(v, lo, hi) ==
    IF lo = hi THEN lo
    ELSE LET mid == (lo + hi + 1) \div 2
         IN IF mid * mid <= v THEN ISqrtIn(v, mid, hi) ELSE ISqrtIn(v, lo, mid - 1)

\* Integer square root (floor).
ISqrt(v) == ISqrtIn(v, 0, 46340)

\* A set of integers as the ascending list (np.unique(...).tolist()).
RECURSIVE SortedSeq(_)
SortedSeq(S) ==
    IF S = {} THEN <<>>
    ELSE LET m == CHOOSE x \in S : \A y \in S : x <= y
         IN <<m>> \o SortedSeq(S \ {m})

RowIdxs(summaries) == [i \in DOMAIN summaries |-> summaries[i].row_idx]

\* ------------------------------------------------------------ request builder
\* The prompt text is kept as the two lists of "ID: <row_idx>" entries it
\* prints; the empty string (no prompt) is the value with both lists empty.
EmptyPrompt == [user1 |-> <<>>, user2 |-> <<>>]

\* generate_serendipity_prompt with the peer's summaries left unfiltered.
generate_serendipity_prompt_unfiltered_user2(user1_summaries, user2_summaries, excluded_indices) ==
    LET filtered_user1 == Filter(user1_summaries, excluded_indices)
        filtered_user2 == user2_summaries
    IN IF filtered_user1 = <<>> \/ filtered_user2 = <<>>
       THEN EmptyPrompt
       ELSE [user1 |-> RowIdxs(filtered_user1), user2 |-> RowIdxs(filtered_user2)]

generate_serendipity_prompt(user1_summaries, user2_summaries, excluded_indices) ==
    LET filtered_user1 == Filter(user1_summaries, excluded_indices)
        filtered_user2 == Filter(user2_summaries, excluded_indices)
    IN IF filtered_user1 = <<>> \/ filtered_user2 = <<>>
       THEN EmptyPrompt
       ELSE [user1 |-> RowIdxs(filtered_user1), user2 |-> RowIdxs(filtered_user2)]

\* ------------------------------------------------------------ response parser
\* A completion's content is either text that repair_json does not turn into
\* a dict (kind "text"), or an object (kind "object") with the set of keys it
\* carries and the three index lists as the oracle wrote them.
ResultKeys == <<"path_title", "common_indices", "user1_unique_indices",
                "user2_unique_indices", "common_background",
                "user_1_unique_branches", "user_2_unique_branches",
                "user_1_call_to_action", "user_2_call_to_action",
                "is_highly_sensitive">>

\* The dict a Python function returns: its keys in order, and the three lists.
EmptyDict == [keys |-> <<>>, common_indices |-> <<>>,
              user1_unique_indices |-> <<>>, user2_unique_indices |-> <<>>]

RequiredKeys == {"common_indices", "user1_unique_indices",
                 "user2_unique_indices", "common_background"}

\* parse_serendipity_result without the subtraction of the common indices from
\* user 1's.
parse_serendipity_result_keep_common(content) ==
    IF content.kind # "object" THEN EmptyDict
    ELSE IF ~(RequiredKeys \subseteq content.keys) THEN EmptyDict
    ELSE LET common_indices == SortedSeq(Range(content.common_indices))
             user1_unique_indices == SortedSeq(Range(content.user1_unique_indices))
             user2_unique_indices ==
                 SortedSeq((Range(content.user2_unique_indices)
                            \ Range(user1_unique_indices)) \ Range(common_indices))
         IN IF \/ Len(common_indices) = 0
               \/ Len(user1_unique_indices) = 0
               \/ Len(user2_unique_indices) = 0
            THEN EmptyDict
            ELSE [keys |-> ResultKeys,
                  common_indices |-> common_indices,
                  user1_unique_indices |-> user1_unique_indices,
                  user2_unique_indices |-> user2_unique_indices]

parse_serendipity_result(content) ==
    IF content.kind # "object" THEN EmptyDict           \* not isinstance(result, dict)
    ELSE IF ~(RequiredKeys \subseteq content.keys) THEN EmptyDict   \* KeyError -> except
    ELSE LET common_indices == SortedSeq(Range(content.common_indices))
             user1_unique_indices ==
                 SortedSeq(Range(content.user1_unique_indices) \ Range(common_indices))
             user2_unique_indices ==
                 SortedSeq((Range(content.user2_unique_indices)
                            \ Range(user1_unique_indices)) \ Range(common_indices))
         IN IF \/ Len(common_indices) = 0
               \/ Len(user1_unique_indices) = 0
               \/ Len(user2_unique_indices) = 0
            THEN EmptyDict
            ELSE [keys |-> ResultKeys,
                  common_indices |-> common_indices,
                  user1_unique_indices |-> user1_unique_indices,
                  user2_unique_indices |-> user2_unique_indices]

\* ------------------------------------------------------------ balance scorer
\* math.log(n) in hundredths, n = 1..10.
LnCenti == <<0, 69, 110, 139, 161, 179, 195, 208, 220, 230>>

\* Inner product of two normalized embeddings, in hundredths.  Embeddings are
\* unit vectors along a coordinate axis, named by the axis.
InnerProduct(e1, e2) == IF e1 = e2 THEN 100 ELSE 0

RECURSIVE BestMatch(_, _)
\* distances[i, 0] of index.search(search_embeddings, 1): the best inner
\* product of e with the indexed embeddings.
BestMatch(e, indexed) ==
    IF indexed = <<>> THEN 0
    ELSE Max2(InnerProduct(e, Head(indexed)), BestMatch(e, Tail(indexed)))

\* sample_size (100) is not below the number of embeddings at these sizes, so
\* every current-user embedding is searched.
get_approx_bipartite_match(current_user_embeddings, user_embeddings) ==
    SeqSum([i \in DOMAIN current_user_embeddings |->
               BestMatch(current_user_embeddings[i], user_embeddings)])
        \div Len(current_user_embeddings)

Embeddings(summaries) == [i \in DOMAIN summaries |-> summaries[i].embedding]

\* InfScores with a large finite number in place of float("inf").
FiniteSentinelScores == [inf |-> FALSE, total |-> 3000000, imbalance |-> 1000000,
                         magnitude_factor |-> 1000000, dist |-> 1000000]

\* Lines 50-54: float("inf") for the total and for each of the three terms;
\* inf = TRUE says that the four floats are infinite.
InfScores == [inf |-> TRUE, total |-> 0, imbalance |-> 0,
              magnitude_factor |-> 0, dist |-> 0]

calculate_balance_scores(data, exclusions_) ==
    LET embeddings_current == Embeddings(Filter(data.current_summaries, exclusions_))
        embeddings_other == Embeddings(Filter(data.summaries, exclusions_))
        len_current == Len(embeddings_current)
        len_other == Len(embeddings_other)
    IN IF len_other = 0 \/ len_current = 0
       THEN InfScores
       ELSE LET imbalance == Abs(LnCenti[len_current] - LnCenti[len_other])
                magnitude_factor == 0
                sim == get_approx_bipartite_match(embeddings_current, embeddings_other)
                dist == 100 - sim
            IN [inf |-> FALSE, total |-> imbalance + magnitude_factor + dist,
                imbalance |-> imbalance, magnitude_factor |-> magnitude_factor,
                dist |-> dist]

sum_balance_scores(imbalance, magnitude_factor, dist) ==
    1 * imbalance + 1 * magnitude_factor + 1 * dist

\* StandardScaler: per column the mean and the population standard deviation
\* of the fitted rows; a zero deviation scales by 1.  Kept exactly as the row
\* count n, the column sum and ssd = sum of (n*x - sum)^2 over the rows, so
\* that (x - mean) / std = sign(d) * sqrt(n * d^2 / ssd) with d = n*x - sum.
Columns(score) == <<score.imbalance, score.magnitude_factor, score.dist>>

ScalerFit(valid_scores) ==
    LET n == Len(valid_scores)
        col(k) == [i \in 1..n |-> Columns(valid_scores[i])[k]]
        sum(k) == SeqSum(col(k))
        ssd(k) == SeqSum([i \in 1..n |->
                     (n * col(k)[i] - sum(k)) * (n * col(k)[i] - sum(k))])
    IN [n |-> n, sum |-> [k \in 1..3 |-> sum(k)], ssd |-> [k \in 1..3 |-> ssd(k)]]

ScalerTransformColumn(scaler_, k, x) ==
    LET d == scaler_.n * x - scaler_.sum[k]
        sign == IF d < 0 THEN -1 ELSE 1
    IN IF scaler_.ssd[k] = 0
       THEN d \div scaler_.n
       ELSE sign * ISqrt(scaler_.n * ((d * d * 1000) \div scaler_.ssd[k]) * 10)

ScalerTransform(scaler_, score) ==
    [k \in 1..3 |-> ScalerTransformColumn(scaler_, k, Columns(score)[k])]

\* ------------------------------------------------------------ inputs
\* One cluster as _prepare_clusters builds it: n_current >= 1 summaries of the
\* current user (clusters without any are skipped there), n_other >= 0 of the
\* peer; the peer's embeddings equal the current user's (far = FALSE) or are
\* orthogonal to them (far = TRUE).
Summary(row_idx, embedding) == [row_idx |-> row_idx, embedding |-> embedding]

MakeCluster(cid, n_current, n_other, far, category_, match_group_id) ==
    [current_summaries |-> [i \in 1..n_current |-> Summary(RowBase(cid) + i - 1, 1)],
     summaries |-> [i \in 1..n_other |->
                       Summary(RowBase(cid) + MaxSide + i - 1, IF far THEN 2 ELSE 1)],
     paths_found |-> 0,
     iteration |-> 0,
     match_group_id |-> match_group_id,
     category |-> category_]

\* What _prepare_clusters can yield for one cluster.
ClusterParams ==
    {[n_current |-> nc, n_other |-> no, far |-> far, category |-> cat,
      match_group_id |-> mg] :
        nc \in 1..MaxSide, no \in 0..MaxSide, far \in BOOLEAN,
        cat \in Categories, mg \in MatchGroupIds}

ClusterOf(cid, p) ==
    MakeCluster(cid, p.n_current, p.n_other, p.far /\ p.n_other > 0, p.category,
                p.match_group_id)

ClusterInputs(cid) == {ClusterOf(cid, p) : p \in ClusterParams}

Ascending == [i \in 1..NumClusters |-> i]
Descending == [i \in 1..NumClusters |-> NumClusters + 1 - i]

VARIABLES
    cluster_data,               \* cid -> cluster record (_prepare_clusters)
    cluster_order,              \* iteration order of the cluster_data dict
    max_paths_per_match_group,  \* config.max_paths_per_match_group
    pc,                         \* match group -> position of its _generate_paths task
    exclusions,                 \* match group -> its exclusions set
    paths_by_category,          \* match group -> category -> list of path entries
    sorted_categories,          \* match group -> categories still to process
    category,                   \* match group -> category of the running cohort
    scaler,                     \* match group -> fitted StandardScaler
    active_clusters,            \* match group -> list of (cid, score, detail)
    prompt,                     \* match group -> the request awaiting the oracle
    requests,                   \* match group -> log of the requests issued
    outcome,                    \* match group -> how its last oracle call ended
    rescored,                   \* match group -> cids re-scored after a response
    task_result,                \* match group -> list returned by _generate_paths
    main_pc,                    \* position of serendipity_optimized
    paths,                      \* serendipity_optimized's collected paths
    error_log,                  \* match groups whose task raised (logger.error)
    result_df,                  \* rows of the returned DataFrame
    fn,                         \* function applied in a function-level check
    fn_in,                      \* its arguments
    fn_out                      \* its result

sched_vars == <<cluster_data, cluster_order, max_paths_per_match_group, pc,
                exclusions, paths_by_category, sorted_categories, category,
                scaler, active_clusters, prompt, requests, outcome, rescored,
                task_result, main_pc, paths, error_log, result_df>>

fn_vars == <<fn, fn_in, fn_out>>

\* conversation_pair_clusters: the clustering of the current user's
\* conversations with one peer's (lines 348-428).
VARIABLES
    n1,                             \* emb1_array.shape[0]
    n2,                             \* emb2_array.shape[0]
    max_items_per_cluster,          \* config.max_items_per_cluster
    max_cluster_iterations,         \* config.max_cluster_iterations
    n_clusters,
    iteration,                      \* number of loop iterations begun
    previous_largest_cluster_size,
    previous_cluster_labels,        \* <<>> stands for None
    current_cluster_labels,         \* <<>> while unbound
    cluster_labels,                 \* <<>> while unbound
    logger,                         \* the records written to context.log
    cb_pc                           \* position in the clustering of one peer

cb_vars == <<n1, n2, max_items_per_cluster, max_cluster_iterations, n_clusters,
             iteration, previous_largest_cluster_size, previous_cluster_labels,
             current_cluster_labels, cluster_labels, logger, cb_pc>>

\* conversation_pair_clusters: the peers, their ranking and the loop over
\* top_users (lines 289-463); find_top_k_users of utils/find_top_k_users.py.
VARIABLES
    other_user_ids,             \* the peers' ids, in the order they are listed
    store,                      \* peer id -> what is stored for it
    config,                     \* ConversationPairClustersConfig
    emb1_list,                  \* the current user's embeddings (their number)
    user_data,                  \* keys of user_data / user_avg_embeddings, in order
    top_users,                  \* list of (user_id, similarity)
    match_group_id,             \* enumerate(top_users)
    global_cluster_id_offset,
    all_pairs,                  \* the clusters emitted, in order
    util_result,                \* outcome of utils' find_top_k_users
    pairs_df,                   \* the rows of the returned result_df
    pairs_pc                    \* position in conversation_pair_clusters

am_vars == <<other_user_ids, store, config, emb1_list, user_data, top_users,
             match_group_id, global_cluster_id_offset, all_pairs, util_result, pairs_df,
             pairs_pc>>

\* sensors/outputs_sensor.py and sensors/inputs_sensor.py: what the two sensors
\* read, the cursor each of them stores, and what an evaluation returned.
VARIABLES
    asset_folder,               \* DAGSTER_STORAGE_DIRECTORY / "serendipity_optimized"
    db_users,                   \* SELECT DISTINCT "userId" FROM "UserPath"
    out_cursor,                 \* context.cursor of outputs_sensor
    out_eval,                   \* the last evaluation of outputs_sensor
    api_storage,                \* API_STORAGE_DIRECTORY
    in_cursor,                  \* context.cursor of inputs_sensor
    in_eval                     \* the last evaluation of inputs_sensor

sn_vars == <<asset_folder, db_users, out_cursor, out_eval, api_storage,
             in_cursor, in_eval>>

VARIABLES
    client,                     \* AzureQueueResource._client ("None" or a client)
    initialized,                \* AzureQueueResource._initialized
    init_lock,                  \* AzureQueueResource._init_lock: _locked, _waiters
    qu_pc,                      \* caller -> position in send_message / _close_client
    qu_log                      \* the last record the resource wrote to the logger

QueueCallers == 0..NumCallers

Senders == 1..NumCallers

qu_vars == <<client, initialized, init_lock, qu_pc, qu_log>>

vars == <<sched_vars, fn_vars, cb_vars, am_vars, sn_vars, qu_vars>>

NoScaler == [n |-> 0, sum |-> <<0, 0, 0>>, ssd |-> <<0, 0, 0>>]

\* match_group_data (serendipity_optimized): the cluster ids of one match
\* group, in cluster_data order.
RECURSIVE SelectCids(_, _)
SelectCids(order, mg) ==
    IF order = <<>> THEN <<>>
    ELSE IF cluster_data[Head(order)].match_group_id = mg
         THEN <<Head(order)>> \o SelectCids(Tail(order), mg)
         ELSE SelectCids(Tail(order), mg)

match_group_data(mg) == SelectCids(cluster_order, mg)

SchedInitWith(data, order, max_paths) ==
    /\ cluster_data = data
    /\ cluster_order = order
    /\ max_paths_per_match_group = max_paths
    /\ pc = [mg \in MatchGroupIds |->
                IF \E c \in ClusterIds : data[c].match_group_id = mg
                THEN "created" ELSE "absent"]
    /\ exclusions = [mg \in MatchGroupIds |-> {}]
    /\ paths_by_category = [mg \in MatchGroupIds |-> [c \in Categories |-> <<>>]]
    /\ sorted_categories = [mg \in MatchGroupIds |-> <<>>]
    /\ category = [mg \in MatchGroupIds |-> "none"]
    /\ scaler = [mg \in MatchGroupIds |-> NoScaler]
    /\ active_clusters = [mg \in MatchGroupIds |-> <<>>]
    /\ prompt = [mg \in MatchGroupIds |-> EmptyPrompt]
    /\ requests = [mg \in MatchGroupIds |-> <<>>]
    /\ outcome = [mg \in MatchGroupIds |-> "none"]
    /\ rescored = [mg \in MatchGroupIds |-> {}]
    /\ task_result = [mg \in MatchGroupIds |-> <<>>]
    /\ main_pc = [at |-> "gather", next |-> 1]
    /\ paths = <<>>
    /\ error_log = {}
    /\ result_df = <<>>

\* The state when serendipity_optimized has created its tasks: any clusters,
\* cluster ids growing with the match group (global_cluster_id_offset).
SchedInit ==
    \E params \in [ClusterIds -> ClusterParams] :
      \E order \in {Ascending, Descending} :
        \E max_paths \in 0..MaxPaths :
          /\ \A c \in ClusterIds : params[c].n_other = 0 => ~params[c].far
          /\ \A c, d \in ClusterIds :
                c < d => params[c].match_group_id <= params[d].match_group_id
          /\ SchedInitWith([c \in ClusterIds |-> ClusterOf(c, params[c])],
                           order, max_paths)

FnIdle ==
    /\ fn = "none"
    /\ fn_in = <<>>
    /\ fn_out = <<>>

\* No peer is being clustered.
CbIdle ==
    /\ n1 = 0
    /\ n2 = 0
    /\ max_items_per_cluster = 0
    /\ max_cluster_iterations = 0
    /\ n_clusters = 0
    /\ iteration = 0
    /\ previous_largest_cluster_size = [inf |-> TRUE, size |-> 0]
    /\ previous_cluster_labels = <<>>
    /\ current_cluster_labels = <<>>
    /\ cluster_labels = <<>>
    /\ logger = <<>>
    /\ cb_pc = "idle"

\* conversation_pair_clusters is not running.
PairsIdle ==
    /\ other_user_ids = <<>>
    /\ store = <<>>
    /\ config = [top_k_users |-> 0, max_items_per_cluster |-> 0,
                 max_cluster_iterations |-> 0]
    /\ emb1_list = 0
    /\ user_data = <<>>
    /\ top_users = <<>>
    /\ match_group_id = 0
    /\ global_cluster_id_offset = 0
    /\ all_pairs = <<>>
    /\ util_result = [raised |-> FALSE, users |-> <<>>]
    /\ pairs_df = <<>>
    /\ pairs_pc = "idle"

\* No sensor has been evaluated and the storage is empty.
SensorsIdle ==
    /\ asset_folder = [exists |-> FALSE, files |-> {}]
    /\ db_users = {}
    /\ out_cursor = [present |-> FALSE, successful |-> <<>>, errored |-> <<>>]
    /\ out_eval = [kind |-> "none", posted |-> {}, response |-> "none"]
    /\ api_storage = [exists |-> FALSE, dirs |-> {}]
    /\ in_cursor = [present |-> FALSE, text |-> <<>>]
    /\ in_eval = [kind |-> "none", run_requests |-> <<>>, add |-> <<>>,
                  delete |-> <<>>]

\* The resource as constructed: no client, not initialised, the lock free,
\* no call begun.
QueueIdle ==
    /\ client = "None"
    /\ initialized = FALSE
    /\ init_lock = [locked |-> FALSE, waiters |-> <<>>]
    /\ qu_pc = [c \in QueueCallers |-> "idle"]
    /\ qu_log = "none"

Init == SchedInit /\ FnIdle /\ CbIdle /\ PairsIdle /\ SensorsIdle /\ QueueIdle

\* ------------------------------------------------------------ _generate_paths
\* The tasks share one event loop: a task that has started runs up to its next
\* await (line 325) or to its end before any other coroutine runs.
Running == {mg \in MatchGroupIds : pc[mg] \in {"category", "loop"}}

\* CidsOfCategory without the test of the cluster's category.
CidsOfCategoryAll(cids, category_) == cids

RECURSIVE CidsOfCategory(_, _)
\* category_to_clusters[category_]: the cluster ids of that category, in order.
CidsOfCategory(cids, category_) ==
    IF cids = <<>> THEN <<>>
    ELSE IF cluster_data[Head(cids)].category = category_
         THEN <<Head(cids)>> \o CidsOfCategory(Tail(cids), category_)
         ELSE CidsOfCategory(Tail(cids), category_)

RECURSIVE CategoryKeys(_, _)
\* category_to_clusters.keys(): the categories with a positive ratio, in the
\* order their first cluster is met.
CategoryKeys(cids, seen) ==
    IF cids = <<>> THEN <<>>
    ELSE LET c == cluster_data[Head(cids)].category
         IN IF match_group_category_ratios(c) > 0 /\ c \notin seen
            THEN <<c>> \o CategoryKeys(Tail(cids), seen \cup {c})
            ELSE CategoryKeys(Tail(cids), seen)

RECURSIVE InsertByRatioAscending(_, _)
\* InsertByRatio with the comparison turned round.
InsertByRatioAscending(c, sorted) ==
    IF sorted = <<>> THEN <<c>>
    ELSE IF match_group_category_ratios(c) < match_group_category_ratios(Head(sorted))
         THEN <<c>> \o sorted
         ELSE <<Head(sorted)>> \o InsertByRatioAscending(c, Tail(sorted))

RECURSIVE InsertByRatio(_, _)
\* Insert c behind every category whose ratio is at least its own (stable).
InsertByRatio(c, sorted) ==
    IF sorted = <<>> THEN <<c>>
    ELSE IF match_group_category_ratios(c) > match_group_category_ratios(Head(sorted))
         THEN <<c>> \o sorted
         ELSE <<Head(sorted)>> \o InsertByRatio(c, Tail(sorted))

RECURSIVE SortCategories(_)
\* sorted(keys, key=ratio, reverse=True)
SortCategories(keys) ==
    IF keys = <<>> THEN <<>>
    ELSE InsertByRatio(keys[Len(keys)], SortCategories(SubSeq(keys, 1, Len(keys) - 1)))

\* ceil(config.max_paths_per_match_group * ratio), the ratio in tenths.
CategoryQuota(category_) ==
    (max_paths_per_match_group * match_group_category_ratios(category_) + 9) \div 10

RECURSIVE TotalPaths(_, _)
\* sum(len(paths) for paths in paths_by_category.values())
TotalPaths(by_category, cats) ==
    IF cats = {} THEN 0
    ELSE LET c == CHOOSE x \in cats : TRUE
         IN Len(by_category[c]) + TotalPaths(by_category, cats \ {c})

RECURSIVE FlattenPaths(_, _)
\* [path for paths in paths_by_category.values() for path in paths]
FlattenPaths(by_category, cats) ==
    IF cats = <<>> THEN <<>>
    ELSE by_category[Head(cats)] \o FlattenPaths(by_category, Tail(cats))

\* Lines 215-236: the locals of one task and the category order.
StartPass(mg) ==
    /\ pc[mg] = "created"
    /\ Running \subseteq {mg}
    /\ LET keys == CategoryKeys(match_group_data(mg), {})
       IN IF keys = <<>>
          THEN /\ pc' = [pc EXCEPT ![mg] = "returned"]       \* return []
               /\ UNCHANGED sorted_categories
          ELSE /\ pc' = [pc EXCEPT ![mg] = "category"]
               /\ sorted_categories' =
                      [sorted_categories EXCEPT ![mg] = SortCategories(keys)]
    /\ exclusions' = [exclusions EXCEPT ![mg] = {}]
    /\ paths_by_category' =
           [paths_by_category EXCEPT ![mg] = [c \in Categories |-> <<>>]]
    /\ task_result' = [task_result EXCEPT ![mg] = <<>>]
    /\ UNCHANGED <<cluster_data, cluster_order, max_paths_per_match_group,
                   category, scaler, active_clusters, prompt, requests, outcome,
                   rescored, main_pc, paths, error_log, result_df, fn_vars, qu_vars, sn_vars, cb_vars, am_vars>>

RECURSIVE ValidEntriesUnfiltered(_, _)
\* ValidEntries without the inf filter.
ValidEntriesUnfiltered(cids, exclusions_) ==
    IF cids = <<>> THEN <<>>
    ELSE <<Head(cids)>> \o ValidEntriesUnfiltered(Tail(cids), exclusions_)

RECURSIVE ValidEntries(_, _)
\* Lines 245-257: the cluster ids whose initial scores hold no inf.
ValidEntries(cids, exclusions_) ==
    IF cids = <<>> THEN <<>>
    ELSE IF calculate_balance_scores(cluster_data[Head(cids)], exclusions_).inf
         THEN ValidEntries(Tail(cids), exclusions_)
         ELSE <<Head(cids)>> \o ValidEntries(Tail(cids), exclusions_)

ActiveEntry(cid, standardized) ==
    [cid |-> cid,
     score |-> sum_balance_scores(standardized[1], standardized[2], standardized[3]),
     detail |-> [imbalance |-> standardized[1],
                 magnitude_factor |-> standardized[2],
                 dist |-> standardized[3]]]

\* Lines 239-286 (one pass of the for loop up to the while), and lines
\* 390-391 when no category is left.
BeginCategory(mg) ==
    /\ pc[mg] = "category"
    /\ Running \subseteq {mg}
    /\ IF sorted_categories[mg] = <<>>
       THEN /\ pc' = [pc EXCEPT ![mg] = "returned"]
            /\ task_result' =
                   [task_result EXCEPT ![mg] =
                       FlattenPaths(paths_by_category[mg],
                                    SortCategories(CategoryKeys(match_group_data(mg), {})))]
            /\ UNCHANGED <<sorted_categories, category, scaler, active_clusters>>
       ELSE LET cat == Head(sorted_categories[mg])
                initial_cluster_ids == CidsOfCategory(match_group_data(mg), cat)
                valid_cluster_ids == ValidEntries(initial_cluster_ids, exclusions[mg])
                valid_scores ==
                    [i \in DOMAIN valid_cluster_ids |->
                        calculate_balance_scores(cluster_data[valid_cluster_ids[i]],
                                                 exclusions[mg])]
                fitted == ScalerFit(valid_scores)
            IN /\ sorted_categories' =
                      [sorted_categories EXCEPT ![mg] = Tail(sorted_categories[mg])]
               /\ UNCHANGED task_result
               /\ IF valid_cluster_ids = <<>>
                  THEN UNCHANGED <<pc, category, scaler, active_clusters>>   \* continue
                  ELSE /\ pc' = [pc EXCEPT ![mg] = "loop"]
                       /\ category' = [category EXCEPT ![mg] = cat]
                       /\ scaler' = [scaler EXCEPT ![mg] = fitted]
                       /\ active_clusters' =
                              [active_clusters EXCEPT ![mg] =
                                  [i \in DOMAIN valid_cluster_ids |->
                                      ActiveEntry(valid_cluster_ids[i],
                                                  ScalerTransform(fitted, valid_scores[i]))]]
    /\ UNCHANGED <<cluster_data, cluster_order, max_paths_per_match_group,
                   exclusions, paths_by_category, prompt, requests, outcome,
                   rescored, main_pc, paths, error_log, result_df, fn_vars, qu_vars, sn_vars, cb_vars, am_vars>>

RECURSIVE InsertByScoreDescending(_, _)
\* InsertByScore with the comparison turned round.
InsertByScoreDescending(entry, sorted) ==
    IF sorted = <<>> THEN <<entry>>
    ELSE IF entry.score > Head(sorted).score
         THEN <<entry>> \o sorted
         ELSE <<Head(sorted)>> \o InsertByScoreDescending(entry, Tail(sorted))

RECURSIVE InsertByScore(_, _)
\* Insert entry behind every entry whose score is at most its own (stable).
InsertByScore(entry, sorted) ==
    IF sorted = <<>> THEN <<entry>>
    ELSE IF entry.score < Head(sorted).score
         THEN <<entry>> \o sorted
         ELSE <<Head(sorted)>> \o InsertByScore(entry, Tail(sorted))

RECURSIVE SortActive(_)
\* active_clusters.sort(key=lambda x: x[1])
SortActive(active) ==
    IF active = <<>> THEN <<>>
    ELSE InsertByScore(active[Len(active)],
                       SortActive(SubSeq(active, 1, Len(active) - 1)))

\* LoopCondition with <= for <.
LoopConditionInclusive(mg) ==
    /\ active_clusters[mg] # <<>>
    /\ TotalPaths(paths_by_category[mg], Categories) <= max_paths_per_match_group
    /\ Len(paths_by_category[mg][category[mg]]) <= CategoryQuota(category[mg])

\* Lines 289-302: the while condition.
LoopCondition(mg) ==
    /\ active_clusters[mg] # <<>>
    /\ TotalPaths(paths_by_category[mg], Categories) < max_paths_per_match_group
    /\ Len(paths_by_category[mg][category[mg]]) < CategoryQuota(category[mg])

\* Lines 289-325: the loop test, the selection, the request; the task is
\* suspended at the await of line 325 when a request is issued.
LoopStep(mg) ==
    /\ pc[mg] = "loop"
    /\ Running \subseteq {mg}
    /\ IF ~LoopCondition(mg)
       THEN /\ pc' = [pc EXCEPT ![mg] = "category"]           \* lines 387-388
            /\ UNCHANGED <<active_clusters, prompt, requests>>
       ELSE LET sorted == SortActive(active_clusters[mg])
                cid == sorted[1].cid
                data == cluster_data[cid]
                built == generate_serendipity_prompt(data.current_summaries,
                                                     data.summaries, exclusions[mg])
            IN IF built = EmptyPrompt
               THEN /\ active_clusters' = [active_clusters EXCEPT ![mg] = Tail(sorted)]
                    /\ UNCHANGED <<pc, prompt, requests>>      \* pop(0); continue
               ELSE /\ active_clusters' = [active_clusters EXCEPT ![mg] = sorted]
                    /\ prompt' = [prompt EXCEPT ![mg] = built]
                    /\ requests' =
                           [requests EXCEPT ![mg] =
                               Append(@, [cid |-> cid,
                                          category |-> category[mg],
                                          prompt |-> built,
                                          exclusions |-> exclusions[mg],
                                          candidates |-> active_clusters[mg],
                                          total_paths |->
                                              TotalPaths(paths_by_category[mg], Categories),
                                          category_paths |->
                                              Len(paths_by_category[mg][category[mg]])])]
                    /\ pc' = [pc EXCEPT ![mg] = "await"]
    /\ UNCHANGED <<cluster_data, cluster_order, max_paths_per_match_group,
                   exclusions, paths_by_category, sorted_categories, category,
                   scaler, outcome, rescored, task_result, main_pc, paths,
                   error_log, result_df, fn_vars, qu_vars, sn_vars, cb_vars, am_vars>>

\* create_path_entry with the two unique lists exchanged.
create_path_entry_swapped(path_obj, cid, match_group_id_, category_, iteration_, balance_score) ==
    [common_indices |-> path_obj.common_indices,
     user1_indices |-> path_obj.user2_unique_indices,
     user2_indices |-> path_obj.user1_unique_indices,
     iteration |-> iteration_,
     cluster_id |-> cid,
     match_group_id |-> match_group_id_,
     category |-> category_,
     balance_score |-> balance_score]

\* _create_path_entry: the fields of a path entry that the scheduler and the
\* duplicate pass read.
create_path_entry(path_obj, cid, match_group_id_, category_, iteration_, balance_score) ==
    [common_indices |-> path_obj.common_indices,
     user1_indices |-> path_obj.user1_unique_indices,
     user2_indices |-> path_obj.user2_unique_indices,
     iteration |-> iteration_,
     cluster_id |-> cid,
     match_group_id |-> match_group_id_,
     category |-> category_,
     balance_score |-> balance_score]

\* What the oracle call of line 325 can end in: the call raises ("raise"), the
\* completion is the failure marker, an empty value whose [-1] raises
\* ("failure"), or its last message is text that is no JSON object ("text") or
\* a JSON object ("object") with some keys and three index lists.
Completion(kind, keys, common, user1, user2) ==
    [kind |-> kind, keys |-> keys, common_indices |-> common,
     user1_unique_indices |-> user1, user2_unique_indices |-> user2]

SeqsUpTo(S, n) == UNION {[1..k -> S] : k \in 0..n}

OracleCompletions(request) ==
    {Completion(k, {}, <<>>, <<>>, <<>>) : k \in {"raise", "failure", "text", "object"}}
    \cup {Completion("object", RequiredKeys, common, user1, user2) :
            common \in SeqsUpTo(Range(request.user1) \cup Range(request.user2), 1),
            user1 \in SeqsUpTo(Range(request.user1), 1),
            user2 \in SeqsUpTo(Range(request.user2), 1)}

\* Lines 325-385: the task resumes with the oracle's answer.  Line 329 binds
\* two names to the parser's return value, which succeeds only for a value of
\* exactly two elements; the parser returns a dict of 0 or of 10 keys, so the
\* assignment raises ValueError and the exception leaves _generate_paths.
OracleRespond(mg, completion) ==
    /\ pc[mg] = "await"
    /\ Running \subseteq {mg}
    /\ prompt' = [prompt EXCEPT ![mg] = EmptyPrompt]
    /\ IF completion.kind \in {"raise", "failure"}
       THEN /\ pc' = [pc EXCEPT ![mg] = "raised"]
            /\ outcome' = [outcome EXCEPT ![mg] = completion.kind]
            /\ UNCHANGED <<cluster_data, exclusions, paths_by_category,
                           active_clusters, rescored>>
       ELSE LET result == parse_serendipity_result(completion)
            IN IF Len(result.keys) # 2
               THEN /\ pc' = [pc EXCEPT ![mg] = "raised"]      \* ValueError, line 329
                    /\ outcome' = [outcome EXCEPT ![mg] =
                                      IF result = EmptyDict THEN "rejected"
                                                            ELSE "accepted"]
                    /\ UNCHANGED <<cluster_data, exclusions, paths_by_category,
                                   active_clusters, rescored>>
               ELSE LET path_obj == result.keys[1]
                        indices_to_exclude == result.keys[2]
                        cid == active_clusters[mg][1].cid
                        data == cluster_data[cid]
                        updated == exclusions[mg] \cup Range(indices_to_exclude)
                        new_scores == calculate_balance_scores(data, updated)
                    IN /\ exclusions' = [exclusions EXCEPT ![mg] = updated]   \* line 332
                       /\ pc' = [pc EXCEPT ![mg] = "loop"]
                       /\ IF path_obj = EmptyDict                   \* not path_obj
                          THEN /\ outcome' = [outcome EXCEPT ![mg] = "rejected"]
                               /\ UNCHANGED <<cluster_data, paths_by_category,
                                              active_clusters, rescored>>
                          ELSE /\ outcome' = [outcome EXCEPT ![mg] = "accepted"]
                               /\ paths_by_category' =
                                      [paths_by_category EXCEPT ![mg][category[mg]] =
                                          Append(@, create_path_entry(
                                                        path_obj, cid, data.match_group_id,
                                                        data.category, data.iteration,
                                                        active_clusters[mg][1].score))]
                               /\ cluster_data' =
                                      [cluster_data EXCEPT ![cid].iteration = @ + 1]
                               /\ rescored' = [rescored EXCEPT ![mg] = @ \cup {cid}]
                               /\ active_clusters' =
                                      [active_clusters EXCEPT ![mg] =
                                          IF new_scores.inf
                                          THEN Tail(@)                      \* pop(0)
                                          ELSE [@ EXCEPT ![1] =
                                                   ActiveEntry(cid,
                                                       ScalerTransform(scaler[mg],
                                                                       new_scores))]]
    /\ UNCHANGED <<cluster_order, max_paths_per_match_group, sorted_categories,
                   category, scaler, requests, task_result, main_pc, paths,
                   error_log, result_df, fn_vars, qu_vars, sn_vars, cb_vars, am_vars>>

\* ------------------------------------------------------------ duplicate pass
RECURSIVE DedupList(_, _)
\* Lines 417-424: the items of one list not seen before, and the seen set after.
DedupList(list, seen) ==
    IF list = <<>> THEN [list |-> <<>>, seen |-> seen]
    ELSE IF Head(list) \in seen
         THEN DedupList(Tail(list), seen)
         ELSE LET rest == DedupList(Tail(list), seen \cup {Head(list)})
              IN [list |-> <<Head(list)>> \o rest.list, seen |-> rest.seen]

RECURSIVE DedupRowsFreshSeen(_, _)
\* DedupRows with the seen set started afresh for every row.
DedupRowsFreshSeen(rows, seen) ==
    IF rows = <<>> THEN <<>>
    ELSE LET row == Head(rows)
             c == DedupList(row.common_indices, seen)
             u1 == DedupList(row.user1_indices, c.seen)
             u2 == DedupList(row.user2_indices, u1.seen)
         IN <<[row EXCEPT !.common_indices = c.list,
                          !.user1_indices = u1.list,
                          !.user2_indices = u2.list]>>
            \o DedupRowsFreshSeen(Tail(rows), {})

RECURSIVE DedupRows(_, _)
\* Lines 414-425: the rows of one match group, in order, sharing one seen set;
\* within a row common_indices, then user1_indices, then user2_indices.
DedupRows(rows, seen) ==
    IF rows = <<>> THEN <<>>
    ELSE LET row == Head(rows)
             c == DedupList(row.common_indices, seen)
             u1 == DedupList(row.user1_indices, c.seen)
             u2 == DedupList(row.user2_indices, u1.seen)
         IN <<[row EXCEPT !.common_indices = c.list,
                          !.user1_indices = u1.list,
                          !.user2_indices = u2.list]>>
            \o DedupRows(Tail(rows), u2.seen)

RECURSIVE RowsOfGroup(_, _)
\* df.filter(pl.col("match_group_id") == mg_id)
RowsOfGroup(df, mg_id) ==
    IF df = <<>> THEN <<>>
    ELSE IF Head(df).match_group_id = mg_id
         THEN <<Head(df)>> \o RowsOfGroup(Tail(df), mg_id)
         ELSE RowsOfGroup(Tail(df), mg_id)

RECURSIVE FixGroups(_, _)
FixGroups(df, mg_ids) ==
    IF mg_ids = <<>> THEN <<>>
    ELSE DedupRows(RowsOfGroup(df, Head(mg_ids)), {}) \o FixGroups(df, Tail(mg_ids))

\* _fix_duplicates; the match groups are taken in ascending order.
fix_duplicates(df) ==
    FixGroups(df, SortedSeq({df[i].match_group_id : i \in DOMAIN df}))

\* ------------------------------------------------------------ remapping
\* idx_to_conv_id: every row of clusters_df has a conversation id; an index
\* that is no row of clusters_df has none.
ConversationId(idx) == IF idx \in Rows THEN <<"conversation", idx>> ELSE <<>>

RemapOk(indices) == \A i \in DOMAIN indices : ConversationId(indices[i]) # <<>>

Remap(indices) == [i \in DOMAIN indices |-> ConversationId(indices[i])]

\* RemapRaises without the test for a missing conversation id.
RemapNeverRaises(paths_df) == FALSE

\* remap_indices_to_conversation_ids: the three id columns added to every row;
\* raises when an index has no conversation id.
RemapRaises(paths_df) ==
    \E i \in DOMAIN paths_df :
        \/ ~RemapOk(paths_df[i].common_indices)
        \/ ~RemapOk(paths_df[i].user1_indices)
        \/ ~RemapOk(paths_df[i].user2_indices)

RemapRow(row) ==
    [path |-> row,
     common_conversation_ids |-> Remap(row.common_indices),
     user1_conversation_ids |-> Remap(row.user1_indices),
     user2_conversation_ids |-> Remap(row.user2_indices)]

remap_indices_to_conversation_ids(paths_df) ==
    [i \in DOMAIN paths_df |-> RemapRow(paths_df[i])]

\* ------------------------------------------------------------ serendipity_optimized
RECURSIVE GroupKeys(_, _)
\* match_group_data.keys(): the match groups in the order of their first cluster.
GroupKeys(order, seen) ==
    IF order = <<>> THEN <<>>
    ELSE LET g == cluster_data[Head(order)].match_group_id
         IN IF g \in seen THEN GroupKeys(Tail(order), seen)
            ELSE <<g>> \o GroupKeys(Tail(order), seen \cup {g})

tasks == GroupKeys(cluster_order, {})

\* AwaitTask with a task's exception leaving serendipity_optimized.
AwaitTaskPropagating ==
    /\ main_pc.at = "gather"
    /\ Running = {}
    /\ main_pc.next <= Len(tasks)
    /\ LET mg == tasks[main_pc.next]
       IN /\ pc[mg] \in {"returned", "raised"}
          /\ IF pc[mg] = "returned"
             THEN /\ paths' = paths \o task_result[mg]
                  /\ main_pc' = [main_pc EXCEPT !.next = @ + 1]
             ELSE /\ main_pc' = [at |-> "failed", next |-> main_pc.next + 1]
                  /\ UNCHANGED paths
    /\ UNCHANGED <<cluster_data, cluster_order, max_paths_per_match_group, pc,
                   exclusions, paths_by_category, sorted_categories, category,
                   scaler, active_clusters, prompt, requests, outcome, rescored,
                   task_result, result_df, error_log, fn_vars, qu_vars, sn_vars, cb_vars,
                   am_vars>>

\* Lines 499-506: await the next task; its paths are collected, or its
\* exception is logged.
AwaitTask ==
    /\ main_pc.at = "gather"
    /\ Running = {}
    /\ main_pc.next <= Len(tasks)
    /\ LET mg == tasks[main_pc.next]
       IN /\ pc[mg] \in {"returned", "raised"}
          /\ IF pc[mg] = "returned"
             THEN /\ paths' = paths \o task_result[mg]
                  /\ UNCHANGED error_log
             ELSE /\ error_log' = error_log \cup {mg}
                  /\ UNCHANGED paths
    /\ main_pc' = [main_pc EXCEPT !.next = @ + 1]
    /\ UNCHANGED <<cluster_data, cluster_order, max_paths_per_match_group, pc,
                   exclusions, paths_by_category, sorted_categories, category,
                   scaler, active_clusters, prompt, requests, outcome, rescored,
                   task_result, result_df, fn_vars, qu_vars, sn_vars, cb_vars, am_vars>>

\* Lines 508-517: the result DataFrame.
BuildResult ==
    /\ main_pc.at = "gather"
    /\ Running = {}
    /\ main_pc.next > Len(tasks)
    /\ IF paths = <<>>
       THEN /\ result_df' = <<>>
            /\ main_pc' = [main_pc EXCEPT !.at = "done"]
       ELSE IF RemapRaises(fix_duplicates(paths))
            THEN /\ result_df' = <<>>
                 /\ main_pc' = [main_pc EXCEPT !.at = "failed"]
            ELSE /\ result_df' = remap_indices_to_conversation_ids(fix_duplicates(paths))
                 /\ main_pc' = [main_pc EXCEPT !.at = "done"]
    /\ UNCHANGED <<cluster_data, cluster_order, max_paths_per_match_group, pc,
                   exclusions, paths_by_category, sorted_categories, category,
                   scaler, active_clusters, prompt, requests, outcome, rescored,
                   task_result, paths, error_log, fn_vars, qu_vars, sn_vars, cb_vars, am_vars>>

Next ==
    \/ \E mg \in MatchGroupIds : StartPass(mg)
    \/ \E mg \in MatchGroupIds : BeginCategory(mg)
    \/ \E mg \in MatchGroupIds : LoopStep(mg)
    \/ \E mg \in MatchGroupIds :
          \E completion \in OracleCompletions(prompt[mg]) : OracleRespond(mg, completion)
    \/ AwaitTask
    \/ BuildResult

Spec == Init /\ [][Next]_vars

\* ------------------------------------------------------------ function level
\* The request builder, the response parser and the duplicate pass applied
\* once to arguments drawn from bounded sets; the scheduler does not run.
SchedIdle ==
    SchedInitWith([c \in ClusterIds |-> MakeCluster(c, 1, 0, FALSE, "coding", 0)],
                  Ascending, 0)

\* Contents of a completion's last message.
Contents ==
    {Completion("text", {}, <<>>, <<>>, <<>>)}
    \cup {Completion("object", keys, common, user1, user2) :
            keys \in {{}, RequiredKeys, RequiredKeys \ {"common_background"}},
            common \in SeqsUpTo(0..MaxListLen, MaxListLen),
            user1 \in SeqsUpTo(0..MaxListLen, MaxListLen),
            user2 \in SeqsUpTo(0..MaxListLen, MaxListLen)}

\* Path entries as the scheduler appends them: built from a parsed result
\* that was not rejected.
PathEntries ==
    {create_path_entry(parse_serendipity_result(content), 1, mg, "practical", 0, 0) :
        content \in {c \in Contents : parse_serendipity_result(c) # EmptyDict},
        mg \in MatchGroupIds}

PathTables == SeqsUpTo(PathEntries, MaxRecords)

ApplyGeneratePrompt ==
    /\ fn = "none"
    /\ \E data \in ClusterInputs(1) :
         \E excluded \in SUBSET (0..(2 * MaxSide - 1)) :
            /\ fn_in' = [user1_summaries |-> data.current_summaries,
                         user2_summaries |-> data.summaries,
                         excluded_indices |-> excluded]
            /\ fn_out' = generate_serendipity_prompt(data.current_summaries,
                                                     data.summaries, excluded)
    /\ fn' = "generate_serendipity_prompt"
    /\ UNCHANGED <<sched_vars, qu_vars, cb_vars, am_vars, sn_vars>>

ApplyParse ==
    /\ fn = "none"
    /\ \E content \in Contents :
          /\ fn_in' = content
          /\ fn_out' = parse_serendipity_result(content)
    /\ fn' = "parse_serendipity_result"
    /\ UNCHANGED <<sched_vars, qu_vars, cb_vars, am_vars, sn_vars>>

\* Tables as remap_indices_to_conversation_ids receives them (line 515): path
\* entries after the duplicate pass.  The oracle writes the indices, so one of
\* them may be no row of clusters_df (NumRows is the first such index).
RemapEntries ==
    {create_path_entry(parse_serendipity_result(content), 1, mg, "practical", 0, 0) :
        content \in {c \in {Completion("object", RequiredKeys, common, user1, user2) :
                                common \in SeqsUpTo((0..MaxListLen) \cup {NumRows}, 1),
                                user1 \in SeqsUpTo((0..MaxListLen) \cup {NumRows}, 1),
                                user2 \in SeqsUpTo((0..MaxListLen) \cup {NumRows}, 1)} :
                         parse_serendipity_result(c) # EmptyDict},
        mg \in MatchGroupIds}

\* The duplicate pass runs on the collected path entries (line 514), before
\* the remapping.
ApplyFixDuplicates ==
    /\ fn = "none"
    /\ \E df \in PathTables \cup SeqsUpTo(RemapEntries, MaxRecords) :
          /\ fn_in' = df
          /\ fn_out' = fix_duplicates(df)
    /\ fn' = "fix_duplicates"
    /\ UNCHANGED <<sched_vars, qu_vars, cb_vars, am_vars, sn_vars>>

RemapTables == {fix_duplicates(df) : df \in SeqsUpTo(RemapEntries, MaxRecords)}

ApplyRemap ==
    /\ fn = "none"
    /\ \E df \in RemapTables :
          /\ fn_in' = df
          /\ fn_out' = IF RemapRaises(df)
                       THEN [raised |-> TRUE, rows |-> <<>>]
                       ELSE [raised |-> FALSE,
                             rows |-> remap_indices_to_conversation_ids(df)]
    /\ fn' = "remap_indices_to_conversation_ids"
    /\ UNCHANGED <<sched_vars, qu_vars, cb_vars, am_vars, sn_vars>>

\* calculate_balance_scores on one cluster and a set of excluded row indices.
ApplyBalanceScores ==
    /\ fn = "none"
    /\ \E data \in ClusterInputs(1) :
         \E excluded \in SUBSET (0..(2 * MaxSide - 1)) :
            /\ fn_in' = [data |-> data, exclusions |-> excluded]
            /\ fn_out' = calculate_balance_scores(data, excluded)
    /\ fn' = "calculate_balance_scores"
    /\ UNCHANGED <<sched_vars, qu_vars, cb_vars, am_vars, sn_vars>>

\* Responses whose lists name rows of the selected cluster (0..2 * MaxSide - 1)
\* or a row of another cluster (2 * MaxSide), and that the parser accepts.
AcceptedContents ==
    {c \in {Completion("object", RequiredKeys, common, user1, user2) :
               common \in SeqsUpTo(0..(2 * MaxSide), 1),
               user1 \in SeqsUpTo(0..(2 * MaxSide), 1),
               user2 \in SeqsUpTo(0..(2 * MaxSide), 1)} :
        parse_serendipity_result(c) # EmptyDict}

\* Lines 312-350 for one request and one accepted response: the request built
\* from a cluster and an exclusion set, and the path entry that
\* _create_path_entry builds from what the parser returns for the response.
ApplyCreatePathEntry ==
    /\ fn = "none"
    /\ \E data \in ClusterInputs(1) :
         \E excluded \in SUBSET (0..(2 * MaxSide - 1)) :
           LET request == generate_serendipity_prompt(data.current_summaries,
                                                      data.summaries, excluded)
           IN /\ request # EmptyPrompt
              /\ \E content \in AcceptedContents :
                   /\ fn_in' = [request |-> request, content |-> content]
                   /\ fn_out' = create_path_entry(parse_serendipity_result(content),
                                                  1, data.match_group_id,
                                                  data.category, data.iteration, 0)
    /\ fn' = "create_path_entry"
    /\ UNCHANGED <<sched_vars, qu_vars, cb_vars, am_vars, sn_vars>>

\* result_df as final reads it (final.py line 39): the remapped rows, each
\* with the user2_id that _create_path_entry found (0 for None, lines 101-108).
SoRows(rows, user2_ids) ==
    [i \in DOMAIN rows |-> [row |-> rows[i], user1_id |-> 1, user2_id |-> user2_ids[i]]]

RECURSIVE FilterSoRowsKeepAll(_)
\* FilterSoRows with no row skipped.
FilterSoRowsKeepAll(so_rows) ==
    IF so_rows = <<>> THEN <<>>
    ELSE <<Head(so_rows)>> \o FilterSoRowsKeepAll(Tail(so_rows))

RECURSIVE FilterSoRows(_)
\* final.py lines 43-55: the rows whose three id lists and two user ids are
\* all truthy, in order.
FilterSoRows(so_rows) ==
    IF so_rows = <<>> THEN <<>>
    ELSE LET r == Head(so_rows)
         IN IF /\ r.row.common_conversation_ids # <<>>
               /\ r.row.user1_conversation_ids # <<>>
               /\ r.row.user2_conversation_ids # <<>>
               /\ r.user1_id # 0
               /\ r.user2_id # 0
            THEN <<r>> \o FilterSoRows(Tail(so_rows))
            ELSE FilterSoRows(Tail(so_rows))

\* serendipity_optimized lines 511-517 on collected path entries, then final's
\* filter (final.py lines 39-55) on the table returned.
ApplyFinal ==
    /\ fn = "none"
    /\ \E df \in SeqsUpTo(RemapEntries, MaxRecords) :
         /\ df # <<>>
         /\ fn_in' = df
         /\ LET fixed == fix_duplicates(df)
            IN IF RemapRaises(fixed)
               THEN fn_out' = [raised |-> TRUE, result_df |-> <<>>,
                               filtered_so_rows |-> <<>>]
               ELSE \E user2_ids \in [DOMAIN fixed -> 0..1] :
                      LET so_rows ==
                              SoRows(remap_indices_to_conversation_ids(fixed),
                                     user2_ids)
                      IN fn_out' = [raised |-> FALSE, result_df |-> so_rows,
                                    filtered_so_rows |-> FilterSoRows(so_rows)]
    /\ fn' = "final"
    /\ UNCHANGED <<sched_vars, qu_vars, cb_vars, am_vars, sn_vars>>

FnInit == SchedIdle /\ FnIdle /\ CbIdle /\ PairsIdle /\ SensorsIdle /\ QueueIdle

FnNext ==
    \/ ApplyGeneratePrompt
    \/ ApplyParse
    \/ ApplyFixDuplicates
    \/ ApplyRemap
    \/ ApplyBalanceScores
    \/ ApplyCreatePathEntry
    \/ ApplyFinal

SpecFn == FnInit /\ [][FnNext]_vars


\* ------------------------------------------------------------ cluster builder
\* The retry loop of conversation_pair_clusters (lines 372-428); the loop of
\* agglomerative_clustering (utils/clustering.py, lines 54-111) is the same
\* statement for statement, with current_n_clusters for n_clusters and a
\* return for each break.
\*
\* A labelling is kept as the list of its clusters, label 0 first; a cluster
\* as the number of the current user's conversations (u1) and of the peer's
\* (u2) that carry its label.
Ceil(a, b) == (a + b - 1) \div b

ClusterSize(c) == c.u1 + c.u2

RECURSIVE Labellings(_, _, _)
\* The labellings of a + b conversations with exactly k labels, none unused:
\* what AgglomerativeClustering(n_clusters=k).fit_predict can return.
Labellings(a, b, k) ==
    IF k = 0 THEN (IF a = 0 /\ b = 0 THEN {<<>>} ELSE {})
    ELSE UNION {{<<[u1 |-> x, u2 |-> y]>> \o rest :
                    rest \in Labellings(a - x, b - y, k - 1)} :
                <<x, y>> \in {<<x, y>> \in (0..a) \X (0..b) :
                                 /\ x + y >= 1
                                 /\ (a - x) + (b - y) >= k - 1}}

\* The labellings one level down the same tree: one cluster of labels is
\* split in two, every other cluster is kept.
Refinements(labels) ==
    {[i \in 1..(Len(labels) + 1) |->
         IF i = k THEN [u1 |-> x, u2 |-> y]
         ELSE IF i = Len(labels) + 1
              THEN [u1 |-> labels[k].u1 - x, u2 |-> labels[k].u2 - y]
              ELSE labels[i]] :
        <<k, x, y>> \in {<<k, x, y>> \in (DOMAIN labels) \X (0..MaxItems) \X (0..MaxItems) :
                            /\ x <= labels[k].u1
                            /\ y <= labels[k].u2
                            /\ x + y >= 1
                            /\ x + y < ClusterSize(labels[k])}}

\* cluster_conversations(emb1_array, emb2_array, n_clusters, None): Ward
\* clustering cut at k clusters.  The tree depends on the embeddings only, so
\* the cut at k + 1 refines the cut at k made by the attempt before.
cluster_conversations(a, b, k, last) ==
    IF last = <<>> THEN Labellings(a, b, k) ELSE Refinements(last)

RECURSIVE LargestClusterSize(_)
\* np.max(np.bincount(labels))
LargestClusterSize(labels) ==
    IF labels = <<>> THEN 0
    ELSE Max2(ClusterSize(Head(labels)), LargestClusterSize(Tail(labels)))

LogRecord(level, msg, value) == [level |-> level, msg |-> msg, value |-> value]

\* The state in which the clustering with one peer begins (line 353).
CbInitWith(a, b, ceiling, budget) ==
    /\ n1 = a
    /\ n2 = b
    /\ max_items_per_cluster = ceiling
    /\ max_cluster_iterations = budget
    /\ n_clusters = 0
    /\ iteration = 0
    /\ previous_largest_cluster_size = [inf |-> TRUE, size |-> 0]
    /\ previous_cluster_labels = <<>>
    /\ current_cluster_labels = <<>>
    /\ cluster_labels = <<>>
    /\ logger = <<>>
    /\ cb_pc = "start"

\* Lines 372-374.
ClusterStart ==
    /\ cb_pc = "start"
    /\ n_clusters' = Max2(1, Ceil(n1 + n2, max_items_per_cluster))
    /\ previous_largest_cluster_size' = [inf |-> TRUE, size |-> 0]
    /\ previous_cluster_labels' = <<>>
    /\ iteration' = 0
    /\ cb_pc' = "loop"
    /\ UNCHANGED <<n1, n2, max_items_per_cluster, max_cluster_iterations,
                   current_cluster_labels, cluster_labels, logger,
                   sched_vars, qu_vars, fn_vars, sn_vars, am_vars>>

\* RangeExhausted with one iteration more.
RangeExhaustedLate(i, budget) == i > budget

\* for iteration in range(config.max_cluster_iterations): no value is left.
RangeExhausted(i, budget) == i >= budget

\* WithinCeiling with one conversation more let through.
WithinCeilingLoose(largest, ceiling) == largest <= ceiling + 1

\* largest_cluster_size <= config.max_items_per_cluster (line 390).
WithinCeiling(largest, ceiling) == largest <= ceiling

\* largest_cluster_size >= previous_largest_cluster_size (line 398).
NoImprovement(largest, previous) == ~previous.inf /\ largest >= previous.size

\* FallbackLabels that keeps the labels of the attempt that did not improve.
FallbackLabelsCurrent(previous, current) == current

\* Lines 403-406: the previous labels if there are any (<<>> stands for None).
FallbackLabels(previous, current) == IF previous # <<>> THEN previous ELSE current

\* Lines 376-424: one iteration of the loop.
ClusterAttempt ==
    /\ cb_pc = "loop"
    /\ ~RangeExhausted(iteration, max_cluster_iterations)
    /\ \E labels \in cluster_conversations(n1, n2, n_clusters, current_cluster_labels) :
         LET largest_cluster_size == LargestClusterSize(labels)
             attempt == LogRecord("info", "attempt", n_clusters)
         IN /\ current_cluster_labels' = labels
            /\ iteration' = iteration + 1
            /\ IF WithinCeiling(largest_cluster_size, max_items_per_cluster)
               THEN /\ logger' = logger \o
                          <<attempt, LogRecord("info", "success", largest_cluster_size)>>
                    /\ cluster_labels' = labels
                    /\ cb_pc' = "done"
                    /\ UNCHANGED <<n_clusters, previous_largest_cluster_size,
                                   previous_cluster_labels>>
               ELSE IF NoImprovement(largest_cluster_size, previous_largest_cluster_size)
               THEN /\ logger' = logger \o
                          <<attempt, LogRecord("info", "no improvement", largest_cluster_size)>>
                    /\ cluster_labels' = FallbackLabels(previous_cluster_labels, labels)
                    /\ cb_pc' = "done"
                    /\ UNCHANGED <<n_clusters, previous_largest_cluster_size,
                                   previous_cluster_labels>>
               ELSE /\ previous_cluster_labels' = labels
                    /\ previous_largest_cluster_size' =
                           [inf |-> FALSE, size |-> largest_cluster_size]
                    /\ n_clusters' = n_clusters + 1
                    /\ IF n_clusters + 1 >= n1 + n2
                       THEN /\ logger' = logger \o
                                  <<attempt,
                                    LogRecord("info", "exceeding max", largest_cluster_size),
                                    LogRecord("warning", "reached maximum", n_clusters + 1)>>
                            /\ cluster_labels' = labels
                            /\ cb_pc' = "done"
                       ELSE /\ logger' = logger \o
                                  <<attempt,
                                    LogRecord("info", "exceeding max", largest_cluster_size)>>
                            /\ UNCHANGED <<cluster_labels, cb_pc>>
    /\ UNCHANGED <<n1, n2, max_items_per_cluster, max_cluster_iterations,
                   sched_vars, qu_vars, fn_vars, sn_vars, am_vars>>

\* Lines 425-428: the else of the for loop.
ClusterExhausted ==
    /\ cb_pc = "loop"
    /\ RangeExhausted(iteration, max_cluster_iterations)
    /\ cluster_labels' = current_cluster_labels
    /\ cb_pc' = "done"
    /\ UNCHANGED <<n1, n2, max_items_per_cluster, max_cluster_iterations,
                   n_clusters, iteration, previous_largest_cluster_size,
                   previous_cluster_labels, current_cluster_labels, logger,
                   sched_vars, qu_vars, fn_vars, sn_vars, am_vars>>

\* The clustering with one peer, for every pair of sizes, ceiling and retry
\* budget in bounds.
ClusterInit ==
    /\ SchedIdle
    /\ FnIdle
    /\ SensorsIdle /\ QueueIdle
    /\ PairsIdle
    /\ \E a \in 1..MaxItems, b \in 1..MaxItems,
          ceiling \in 1..MaxCeiling, budget \in 1..MaxBudget :
          CbInitWith(a, b, ceiling, budget)

ClusterNext == ClusterStart \/ ClusterAttempt \/ ClusterExhausted

SpecCluster == ClusterInit /\ [][ClusterNext]_vars

\* ------------------------------------------------------------ account matcher
PeerIds == 1..NumPeers

\* What is stored for a peer: no file that can be read ("missing"), a file
\* without rows ("empty"), or a file of `items` conversations ("ok");
\* similarity is the score of its embeddings against the current user's.
StoreEntries ==
    {[status |-> st, items |-> 1, similarity |-> 0] : st \in {"missing", "empty"}}
    \cup {[status |-> "ok", items |-> n, similarity |-> sim] :
             n \in 1..MaxPeerItems, sim \in 0..MaxSimilarity}

\* The lists of distinct elements of S.
InjectiveSeqs(S) ==
    UNION {{q \in [1..k -> S] : \A i, j \in 1..k : i # j => q[i] # q[j]} :
             k \in 0..Cardinality(S)}

UserSimilarity(user_id, similarity) == [user_id |-> user_id, similarity |-> similarity]

\* load_user_embeddings of conversation_pair_clusters.py: (None, None) for a
\* file without rows and, the exception caught and logged, for one that
\* cannot be read.
load_user_embeddings(uid) == store[uid].status = "ok"

RECURSIVE collect_user_data(_)
\* The keys of user_avg_embeddings and user_data, in insertion order.
collect_user_data(user_ids) ==
    IF user_ids = <<>> THEN <<>>
    ELSE IF load_user_embeddings(Head(user_ids))
         THEN <<Head(user_ids)>> \o collect_user_data(Tail(user_ids))
         ELSE collect_user_data(Tail(user_ids))

\* The place of uid in a list of ids.
Position(ids, uid) == CHOOSE i \in DOMAIN ids : ids[i] = uid

RECURSIVE InsertBySearchOrder(_, _, _)
\* index.search: higher inner product first; the order of equal inner
\* products is the library's choice, given here by the list tie.
InsertBySearchOrder(x, sorted, tie) ==
    IF sorted = <<>> THEN <<x>>
    ELSE IF \/ x.similarity > Head(sorted).similarity
            \/ /\ x.similarity = Head(sorted).similarity
               /\ Position(tie, x.user_id) < Position(tie, Head(sorted).user_id)
         THEN <<x>> \o sorted
         ELSE <<Head(sorted)>> \o InsertBySearchOrder(x, Tail(sorted), tie)

RECURSIVE IndexSearch(_, _)
IndexSearch(user_ids, tie) ==
    IF user_ids = <<>> THEN <<>>
    ELSE InsertBySearchOrder(
             UserSimilarity(Head(user_ids), store[Head(user_ids)].similarity),
             IndexSearch(Tail(user_ids), tie), tie)

RECURSIVE InsertBySimilarityAscending(_, _)
\* InsertBySimilarity with the comparison turned round.
InsertBySimilarityAscending(x, sorted) ==
    IF sorted = <<>> THEN <<x>>
    ELSE IF x.similarity < Head(sorted).similarity
         THEN <<x>> \o sorted
         ELSE <<Head(sorted)>> \o InsertBySimilarityAscending(x, Tail(sorted))

RECURSIVE InsertBySimilarity(_, _)
\* Insert x behind every entry whose similarity is at least its own (stable).
InsertBySimilarity(x, sorted) ==
    IF sorted = <<>> THEN <<x>>
    ELSE IF x.similarity > Head(sorted).similarity
         THEN <<x>> \o sorted
         ELSE <<Head(sorted)>> \o InsertBySimilarity(x, Tail(sorted))

RECURSIVE SortBySimilarity(_)
\* results.sort(key=lambda x: x[1], reverse=True); sorted(..., reverse=True)
SortBySimilarity(results) ==
    IF results = <<>> THEN <<>>
    ELSE InsertBySimilarity(results[Len(results)],
                            SortBySimilarity(SubSeq(results, 1, Len(results) - 1)))

Min2(a, b) == IF a < b THEN a ELSE b

\* find_top_k_users of conversation_pair_clusters.py (lines 82-115) on the
\* keys of user_avg_embeddings.
find_top_k_users(user_ids, top_k, tie) ==
    IF user_ids = <<>> THEN <<>>
    ELSE LET k == Min2(top_k, Len(user_ids))
         IN SortBySimilarity(SubSeq(IndexSearch(user_ids, tie), 1, k))

\* ---- utils/find_top_k_users.py
\* (similarity, user_id) < (similarity, user_id), as Python orders tuples.
ItemLess(a, b) ==
    \/ a.similarity < b.similarity
    \/ a.similarity = b.similarity /\ a.user_id < b.user_id

RECURSIVE SiftDown(_, _, _, _)
\* heapq._siftdown: newitem moves from pos towards the root (place 1 here).
SiftDown(heap, startpos, pos, newitem) ==
    IF pos > startpos /\ ItemLess(newitem, heap[pos \div 2])
    THEN SiftDown([heap EXCEPT ![pos] = heap[pos \div 2]], startpos, pos \div 2, newitem)
    ELSE [heap EXCEPT ![pos] = newitem]

heappush(heap, item) == SiftDown(Append(heap, item), 1, Len(heap) + 1, item)

RECURSIVE SiftUp(_, _, _, _)
\* heapq._siftup: the smaller child moves up until a leaf is reached, then
\* newitem is sifted down from there.
SiftUp(heap, startpos, pos, newitem) ==
    IF 2 * pos <= Len(heap)
    THEN LET rightpos == 2 * pos + 1
             childpos == IF rightpos <= Len(heap) /\ ~ItemLess(heap[2 * pos], heap[rightpos])
                         THEN rightpos ELSE 2 * pos
         IN SiftUp([heap EXCEPT ![pos] = heap[childpos]], startpos, childpos, newitem)
    ELSE SiftDown([heap EXCEPT ![pos] = newitem], startpos, pos, newitem)

heappushpop(heap, item) ==
    IF heap # <<>> /\ ItemLess(heap[1], item)
    THEN SiftUp([heap EXCEPT ![1] = item], 1, 1, item)
    ELSE heap

RECURSIVE TopKHeap(_, _, _)
\* Lines 147-160: load_user_embeddings of utils/find_top_k_users.py reads the
\* peer's file with no exception handler, so a file that cannot be read ends
\* the call; a file without rows gives (None, None) and the peer is passed over.
TopKHeap(user_ids, top_k_heap, top_k) ==
    IF user_ids = <<>> THEN [raised |-> FALSE, users |-> top_k_heap]
    ELSE LET user_id == Head(user_ids)
             item == UserSimilarity(user_id, store[user_id].similarity)
         IN IF store[user_id].status = "missing"
            THEN [raised |-> TRUE, users |-> <<>>]
            ELSE IF store[user_id].status = "empty"
            THEN TopKHeap(Tail(user_ids), top_k_heap, top_k)
            ELSE IF Len(top_k_heap) < top_k
            THEN TopKHeap(Tail(user_ids), heappush(top_k_heap, item), top_k)
            ELSE IF item.similarity > top_k_heap[1].similarity
            THEN TopKHeap(Tail(user_ids), heappushpop(top_k_heap, item), top_k)
            ELSE TopKHeap(Tail(user_ids), top_k_heap, top_k)

\* find_top_k_users of utils/find_top_k_users.py (lines 126-164).
find_top_k_users_heap(user_ids, top_k) ==
    IF user_ids = <<>> THEN [raised |-> FALSE, users |-> <<>>]
    ELSE LET looped == TopKHeap(user_ids, <<>>, top_k)
         IN [raised |-> looped.raised, users |-> SortBySimilarity(looped.users)]

\* ---- conversation_pair_clusters, the asset
\* One record per cluster that has conversations: it stands for the u1 rows
\* of the current user and the u2 rows of the peer that carry its cluster_id.
PairRows(match_group_id_, cluster_id, other_uid, labels, cluster_idx) ==
    [match_group_id |-> match_group_id_, cluster_id |-> cluster_id,
     other_uid |-> other_uid,
     u1 |-> IF cluster_idx + 1 <= Len(labels) THEN labels[cluster_idx + 1].u1 ELSE 0,
     u2 |-> IF cluster_idx + 1 <= Len(labels) THEN labels[cluster_idx + 1].u2 ELSE 0]

RECURSIVE ClusterPairsShort(_, _, _, _, _)
\* ClusterPairs with the last cluster index left out.
ClusterPairsShort(match_group_id_, offset, other_uid, labels, cluster_idx) ==
    IF cluster_idx >= n_clusters - 1 THEN <<>>
    ELSE LET row == PairRows(match_group_id_, cluster_idx + offset, other_uid,
                             labels, cluster_idx)
         IN (IF row.u1 + row.u2 > 0 THEN <<row>> ELSE <<>>)
            \o ClusterPairsShort(match_group_id_, offset, other_uid, labels,
                                 cluster_idx + 1)

RECURSIVE ClusterPairs(_, _, _, _, _)
\* Lines 435-454, for cluster_idx .. n - 1.
ClusterPairs(match_group_id_, offset, other_uid, labels, cluster_idx) ==
    IF cluster_idx >= n_clusters THEN <<>>
    ELSE LET row == PairRows(match_group_id_, cluster_idx + offset, other_uid,
                             labels, cluster_idx)
         IN (IF row.u1 + row.u2 > 0 THEN <<row>> ELSE <<>>)
            \o ClusterPairs(match_group_id_, offset, other_uid, labels, cluster_idx + 1)

\* Lines 289-319: the early returns and collect_user_data.
CollectUserData ==
    /\ pairs_pc = "start"
    /\ IF other_user_ids = <<>> \/ emb1_list = 0
       THEN /\ pairs_pc' = "done"
            /\ UNCHANGED user_data
       ELSE /\ user_data' = collect_user_data(other_user_ids)
            /\ pairs_pc' = "collected"
    /\ UNCHANGED <<other_user_ids, store, config, emb1_list, top_users,
                   match_group_id, global_cluster_id_offset, all_pairs, util_result,
                   pairs_df, sched_vars, qu_vars, fn_vars, sn_vars, cb_vars>>

\* Lines 322-346.
FindTopKUsers ==
    /\ pairs_pc = "collected"
    /\ \E tie \in {q \in InjectiveSeqs(PeerIds) : Len(q) = NumPeers} :
         top_users' = find_top_k_users(user_data, config.top_k_users, tie)
    /\ pairs_pc' = IF top_users' = <<>> THEN "done" ELSE "ranked"
    /\ match_group_id' = 0
    /\ global_cluster_id_offset' = 0
    /\ all_pairs' = <<>>
    /\ UNCHANGED <<other_user_ids, store, config, emb1_list, user_data, util_result,
                   pairs_df, sched_vars, qu_vars, fn_vars, sn_vars, cb_vars>>

\* Lines 348-354: the next peer of top_users.
BeginPeer ==
    /\ pairs_pc = "ranked"
    /\ cb_pc = "idle"
    /\ match_group_id < Len(top_users)
    /\ n1' = emb1_list
    /\ n2' = store[top_users[match_group_id + 1].user_id].items
    /\ max_items_per_cluster' = config.max_items_per_cluster
    /\ max_cluster_iterations' = config.max_cluster_iterations
    /\ n_clusters' = 0
    /\ iteration' = 0
    /\ previous_largest_cluster_size' = [inf |-> TRUE, size |-> 0]
    /\ previous_cluster_labels' = <<>>
    /\ current_cluster_labels' = <<>>
    /\ cluster_labels' = <<>>
    /\ logger' = <<>>
    /\ cb_pc' = "start"
    /\ UNCHANGED <<sched_vars, qu_vars, fn_vars, sn_vars, am_vars>>

\* Lines 430-457.
EndPeer ==
    /\ pairs_pc = "ranked"
    /\ cb_pc = "done"
    /\ all_pairs' = all_pairs \o
           ClusterPairs(match_group_id, global_cluster_id_offset,
                        top_users[match_group_id + 1].user_id, cluster_labels, 0)
    /\ global_cluster_id_offset' = global_cluster_id_offset + n_clusters
    /\ match_group_id' = match_group_id + 1
    /\ cb_pc' = "idle"
    /\ UNCHANGED <<other_user_ids, store, config, emb1_list, user_data, top_users,
                   util_result, pairs_df, pairs_pc,
                   n1, n2, max_items_per_cluster, max_cluster_iterations, n_clusters,
                   iteration, previous_largest_cluster_size, previous_cluster_labels,
                   current_cluster_labels, cluster_labels, logger,
                   sched_vars, qu_vars, fn_vars, sn_vars>>

\* CONVERSATION_PAIR_SCHEMA: cluster_id is pl.UInt8, which holds 0 .. 255.
UInt8Range == 256

\* A row as the result DataFrame holds it.  A cluster_id that UInt8 cannot hold
\* is stored as null (-1 here) by a polars build that converts leniently; a
\* build that converts strictly raises instead (see Finish).
StoredRow(row) ==
    [row EXCEPT !.cluster_id = IF row.cluster_id < UInt8Range THEN row.cluster_id ELSE -1]

\* result_df.sort(["cluster_id"]): all_pairs is in ascending order of
\* cluster_id already (the offset only grows), so the stable sort moves only
\* the rows with a null cluster_id, to the front.
SortByClusterId(rows) ==
    SelectSeq(rows, LAMBDA row : row.cluster_id = -1)
        \o SelectSeq(rows, LAMBDA row : row.cluster_id # -1)

\* Lines 459-463: top_users is used up.  pl.DataFrame(all_pairs, schema=...)
\* either raises on a cluster_id above 255 or stores it as null, depending on
\* the polars build.
Finish ==
    /\ pairs_pc = "ranked"
    /\ cb_pc = "idle"
    /\ match_group_id = Len(top_users)
    /\ IF \A i \in DOMAIN all_pairs : all_pairs[i].cluster_id < UInt8Range
       THEN /\ pairs_df' = SortByClusterId([i \in DOMAIN all_pairs |-> StoredRow(all_pairs[i])])
            /\ pairs_pc' = "done"
       ELSE \/ /\ pairs_df' = <<>>
               /\ pairs_pc' = "raised"
            \/ /\ pairs_df' = SortByClusterId([i \in DOMAIN all_pairs |->
                                                  StoredRow(all_pairs[i])])
               /\ pairs_pc' = "done"
    /\ UNCHANGED <<other_user_ids, store, config, emb1_list, user_data, top_users,
                   match_group_id, global_cluster_id_offset, all_pairs, util_result,
                   sched_vars, qu_vars, fn_vars, sn_vars, cb_vars>>

\* find_top_k_users of utils/find_top_k_users.py on the same peers.
UtilFindTopKUsers ==
    /\ pairs_pc = "start"
    /\ util_result' = find_top_k_users_heap(other_user_ids, config.top_k_users)
    /\ pairs_pc' = "util"
    /\ UNCHANGED <<other_user_ids, store, config, emb1_list, user_data, top_users,
                   match_group_id, global_cluster_id_offset, all_pairs, pairs_df,
                   sched_vars, qu_vars, fn_vars, sn_vars, cb_vars>>

\* Every list of peers, every content of their files, and every K, size of
\* the current user's data, ceiling and retry budget in bounds.  A peer that
\* is not listed has no file.
PairsInit ==
    /\ SchedIdle
    /\ FnIdle
    /\ SensorsIdle /\ QueueIdle
    /\ CbIdle
    /\ other_user_ids \in InjectiveSeqs(PeerIds)
    /\ store \in {st \in [PeerIds -> StoreEntries] :
                     \A uid \in PeerIds :
                        (\A i \in DOMAIN other_user_ids : other_user_ids[i] # uid)
                           => st[uid].status = "missing"}
    /\ config \in [top_k_users : 1..NumPeers,
                    max_items_per_cluster : 1..MaxPeerItems,
                    max_cluster_iterations : 1..MaxPairsBudget]
    /\ emb1_list \in 0..MaxPeerItems
    /\ user_data = <<>>
    /\ top_users = <<>>
    /\ match_group_id = 0
    /\ global_cluster_id_offset = 0
    /\ all_pairs = <<>>
    /\ util_result = [raised |-> FALSE, users |-> <<>>]
    /\ pairs_df = <<>>
    /\ pairs_pc = "start"

PairsNext ==
    \/ CollectUserData
    \/ FindTopKUsers
    \/ BeginPeer
    \/ ClusterStart
    \/ ClusterAttempt
    \/ ClusterExhausted
    \/ EndPeer
    \/ Finish
    \/ UtilFindTopKUsers

SpecPairs == PairsInit /\ [][PairsNext]_vars

\* ---- cluster ids over many clusters
\* With max_items_per_cluster = 1 the first attempt asks for n1 + n2 clusters
\* (line 372) and every conversation is a cluster of its own, which meets the
\* ceiling (line 390); the labels are numbered here with the current user's
\* conversations first.
SingletonLabels(a, b) ==
    [i \in 1..(a + b) |-> IF i <= a THEN [u1 |-> 1, u2 |-> 0] ELSE [u1 |-> 0, u2 |-> 1]]

\* Lines 348-457 for one peer when the ceiling is 1: the clustering into
\* singletons, the rows of its clusters, the new offset.
ClusterPeerSingletons ==
    /\ pairs_pc = "ranked"
    /\ cb_pc = "idle"
    /\ match_group_id < Len(top_users)
    /\ config.max_items_per_cluster = 1
    /\ LET other_uid == top_users[match_group_id + 1].user_id
           a == emb1_list
           b == store[other_uid].items
           labels == SingletonLabels(a, b)
       IN /\ all_pairs' = all_pairs \o
                 [cluster_idx1 \in 1..(a + b) |->
                     PairRows(match_group_id, cluster_idx1 - 1 + global_cluster_id_offset,
                              other_uid, labels, cluster_idx1 - 1)]
          /\ global_cluster_id_offset' = global_cluster_id_offset + (a + b)
    /\ match_group_id' = match_group_id + 1
    /\ UNCHANGED <<other_user_ids, store, config, emb1_list, user_data, top_users,
                   util_result, pairs_df, pairs_pc, sched_vars, qu_vars, fn_vars, sn_vars, cb_vars>>

\* A current user with up to MaxOwnItems conversations, peers that can all be
\* loaded, and a ceiling of one conversation per cluster.
IdsInit ==
    /\ SchedIdle
    /\ FnIdle
    /\ SensorsIdle /\ QueueIdle
    /\ CbIdle
    /\ other_user_ids \in InjectiveSeqs(PeerIds)
    /\ store \in {st \in [PeerIds -> StoreEntries] :
                     \A uid \in PeerIds :
                        IF \E i \in DOMAIN other_user_ids : other_user_ids[i] = uid
                        THEN st[uid].status = "ok" /\ st[uid].similarity = MaxSimilarity
                        ELSE st[uid].status = "missing"}
    /\ config = [top_k_users |-> NumPeers, max_items_per_cluster |-> 1,
                 max_cluster_iterations |-> MaxPairsBudget]
    /\ emb1_list \in 1..MaxOwnItems
    /\ user_data = <<>>
    /\ top_users = <<>>
    /\ match_group_id = 0
    /\ global_cluster_id_offset = 0
    /\ all_pairs = <<>>
    /\ util_result = [raised |-> FALSE, users |-> <<>>]
    /\ pairs_df = <<>>
    /\ pairs_pc = "start"

IdsNext ==
    \/ CollectUserData
    \/ FindTopKUsers
    \/ ClusterPeerSingletons
    \/ Finish

SpecIds == IdsInit /\ [][IdsNext]_vars

\* ---- one peer, every exit of the retry loop
\* The state at line 353 with one peer ranked: the current user's and the
\* peer's conversations, the ceiling and the retry budget in the bounds of the
\* cluster builder.
EmitInit ==
    /\ SchedIdle
    /\ FnIdle
    /\ SensorsIdle /\ QueueIdle
    /\ \E a \in 1..MaxItems, b \in 1..MaxItems,
          ceiling \in 1..MaxCeiling, budget \in 1..MaxBudget :
          /\ CbInitWith(a, b, ceiling, budget)
          /\ store = [uid \in PeerIds |->
                         IF uid = 1
                         THEN [status |-> "ok", items |-> b, similarity |-> 0]
                         ELSE [status |-> "missing", items |-> 1, similarity |-> 0]]
          /\ config = [top_k_users |-> 1, max_items_per_cluster |-> ceiling,
                       max_cluster_iterations |-> budget]
          /\ emb1_list = a
    /\ other_user_ids = <<1>>
    /\ user_data = <<1>>
    /\ top_users = <<UserSimilarity(1, 0)>>
    /\ match_group_id = 0
    /\ global_cluster_id_offset = 0
    /\ all_pairs = <<>>
    /\ util_result = [raised |-> FALSE, users |-> <<>>]
    /\ pairs_df = <<>>
    /\ pairs_pc = "ranked"

EmitNext ==
    \/ ClusterStart
    \/ ClusterAttempt
    \/ ClusterExhausted
    \/ EndPeer
    \/ Finish

SpecEmit == EmitInit /\ [][EmitNext]_vars

\* ------------------------------------------------------------ outputs sensor
\* Partition keys are user ids; the file of a partition in the asset folder is
\* named after it.
Partitions == 1..NumPartitions

\* The serendipity_optimized asset of one partition is written to the asset
\* folder, which outputs_sensor lists at line 54.
MaterializeAsset(p) ==
    /\ p \notin asset_folder.files
    /\ asset_folder' = [exists |-> TRUE, files |-> asset_folder.files \cup {p}]
    /\ UNCHANGED <<db_users, out_cursor, out_eval, api_storage, in_cursor, in_eval,
                   sched_vars, qu_vars, fn_vars, cb_vars, am_vars>>

\* A file of the asset folder goes away between two evaluations.
RemoveAsset(p) ==
    /\ p \in asset_folder.files
    /\ asset_folder' = [asset_folder EXCEPT !.files = @ \ {p}]
    /\ UNCHANGED <<db_users, out_cursor, out_eval, api_storage, in_cursor, in_eval,
                   sched_vars, qu_vars, fn_vars, cb_vars, am_vars>>

\* json.dumps of the cursor dictionary (lines 98-105): both sets as sorted lists.
DumpCursor(successful_partitions, errored_partitions) ==
    [present |-> TRUE,
     successful |-> SortedSeq(successful_partitions),
     errored |-> SortedSeq(errored_partitions)]

\* Lines 29-45: the two sets of the stored cursor, or the users of the
\* database and no errored partition when no cursor is stored.
LoadCursor(cursor, users) ==
    IF cursor.present
    THEN [successful |-> Range(cursor.successful), errored |-> Range(cursor.errored)]
    ELSE [successful |-> users, errored |-> {}]

\* NextPartitionChoices with an errored partition retried while new ones wait.
NextPartitionAny(new_partitions, errored_partitions) ==
    new_partitions \cup errored_partitions

\* Lines 61-66: set.pop() of the new partitions if there are any, of the
\* errored ones otherwise; pop returns an arbitrary element.
NextPartitionChoices(new_partitions, errored_partitions) ==
    IF new_partitions # {} THEN new_partitions ELSE errored_partitions

\* What requests.post(...).json() does: the API answers success, answers
\* without success, or the call raises.
ApiOutcomes == {"success", "failure", "raise"}

\* One evaluation of outputs_sensor (lines 23-106).
OutputsSensor ==
    LET loaded == LoadCursor(out_cursor, db_users)
        all_partitions == asset_folder.files
        new_partitions ==
            (all_partitions \ loaded.successful) \ loaded.errored
        choices == NextPartitionChoices(new_partitions, loaded.errored)
    IN /\ IF ~asset_folder.exists \/ choices = {}
          THEN \* SkipReason at line 50 or at line 70: the cursor stays
               /\ out_eval' = [kind |-> "skip", posted |-> {}, response |-> "none"]
               /\ UNCHANGED out_cursor
          ELSE \E next_partition \in choices : \E response \in ApiOutcomes :
                 LET popped == IF new_partitions # {}
                               THEN loaded.errored
                               ELSE loaded.errored \ {next_partition}
                     successful_partitions ==
                         IF response = "success"
                         THEN loaded.successful \cup {next_partition}
                         ELSE loaded.successful
                     errored_partitions ==
                         IF response = "success"
                         THEN popped \ {next_partition}
                         ELSE popped \cup {next_partition}
                 IN /\ out_eval' = [kind |-> "result", posted |-> {next_partition},
                                    response |-> response]
                    /\ out_cursor' =
                           DumpCursor(successful_partitions, errored_partitions)
       /\ UNCHANGED <<asset_folder, db_users, api_storage, in_cursor, in_eval,
                      sched_vars, qu_vars, fn_vars, cb_vars, am_vars>>

\* The rows of UserPath are there before the sensor is first evaluated.
OutputsInit ==
    /\ SchedIdle
    /\ FnIdle
    /\ CbIdle
    /\ PairsIdle
    /\ QueueIdle
    /\ asset_folder \in {[exists |-> FALSE, files |-> {}], [exists |-> TRUE, files |-> {}]}
    /\ db_users \in SUBSET Partitions
    /\ out_cursor = [present |-> FALSE, successful |-> <<>>, errored |-> <<>>]
    /\ out_eval = [kind |-> "none", posted |-> {}, response |-> "none"]
    /\ api_storage = [exists |-> FALSE, dirs |-> {}]
    /\ in_cursor = [present |-> FALSE, text |-> <<>>]
    /\ in_eval = [kind |-> "none", run_requests |-> <<>>, add |-> <<>>,
                  delete |-> <<>>]

OutputsNext ==
    \/ \E p \in Partitions : MaterializeAsset(p)
    \/ \E p \in Partitions : RemoveAsset(p)
    \/ OutputsSensor

SpecOutputs == OutputsInit /\ [][OutputsNext]_vars

\* The sensor is evaluated again and again (minimum_interval_seconds=30,
\* default_status RUNNING): an evaluation that would change the state is not
\* put off for ever.
SpecOutputsFair == SpecOutputs /\ WF_vars(OutputsSensor)

\* ------------------------------------------------------------ inputs sensor
\* A user's folder appears under API_STORAGE_DIRECTORY (listed at line 52).
CreateUserFolder(p) ==
    /\ p \notin api_storage.dirs
    /\ api_storage' = [exists |-> TRUE, dirs |-> api_storage.dirs \cup {p}]
    /\ UNCHANGED <<asset_folder, db_users, out_cursor, out_eval, in_cursor, in_eval,
                   sched_vars, qu_vars, fn_vars, cb_vars, am_vars>>

\* A user's folder is deleted.  On a local file system the directory that held
\* it stays; on a blob store a directory with nothing under it does not exist.
DeleteUserFolder(p) ==
    /\ p \in api_storage.dirs
    /\ \E still \in (IF api_storage.dirs = {p} THEN BOOLEAN ELSE {TRUE}) :
         api_storage' = [exists |-> still, dirs |-> api_storage.dirs \ {p}]
    /\ UNCHANGED <<asset_folder, db_users, out_cursor, out_eval, in_cursor, in_eval,
                   sched_vars, qu_vars, fn_vars, cb_vars, am_vars>>

\* str(all_partitions) (line 75): the elements of the set, once each, in the
\* set's iteration order, which is any order.
SetTexts(S) == {q \in InjectiveSeqs(S) : Range(q) = S}

\* ast.literal_eval of a cursor (line 36): the set of the elements listed.
EvalSetText(text) == Range(text)

\* Lines 35-44: the stored cursor, or the stems of the files of the asset
\* folder when no cursor is stored.
InputsState(cursor, folder) ==
    IF cursor.present THEN EvalSetText(cursor.text)
    ELSE IF folder.exists THEN folder.files
    ELSE {}

\* Line 54.
PartitionsToAdd(all_partitions, current_state) == all_partitions \ current_state

\* PartitionsToDelete with every partition of the state deleted.
PartitionsToDeleteAll(all_partitions, current_state) == current_state

\* Line 55.
PartitionsToDelete(all_partitions, current_state) == current_state \ all_partitions

\* Lines 58-64: the files under STORAGE_BUCKET that the pattern
\* "**/*(k1 | k2).snappy" matches.  Brackets and bars stand for themselves in
\* a glob, so a file matches only if its name ends with the bracketed text; the
\* file of partition k is named "k.snappy" and never does.
UnlinkMatches(partitions_to_delete, files) ==
    {f \in files : FALSE}

\* One evaluation of inputs_sensor (lines 27-82).
InputsSensor ==
    LET current_state == InputsState(in_cursor, asset_folder)
        all_partitions == api_storage.dirs
        partitions_to_add == PartitionsToAdd(all_partitions, current_state)
        partitions_to_delete == PartitionsToDelete(all_partitions, current_state)
        skip == [kind |-> "skip", run_requests |-> <<>>, add |-> <<>>,
                 delete |-> <<>>]
    IN /\ IF ~api_storage.exists
          THEN \* SkipReason at line 49
               /\ in_eval' = skip
               /\ UNCHANGED <<in_cursor, asset_folder>>
          ELSE /\ asset_folder' =
                     [asset_folder EXCEPT
                        !.files = @ \ UnlinkMatches(partitions_to_delete, @)]
               /\ IF Cardinality(partitions_to_add)
                       + Cardinality(partitions_to_delete) > 0
                  THEN \E run_requests \in SetTexts(partitions_to_add) :
                       \E text \in SetTexts(all_partitions) :
                         /\ in_eval' = [kind |-> "result",
                                        run_requests |-> run_requests,
                                        add |-> SortedSeq(partitions_to_add),
                                        delete |-> SortedSeq(partitions_to_delete)]
                         /\ in_cursor' = [present |-> TRUE, text |-> text]
                  ELSE \* SkipReason at line 82
                       /\ in_eval' = skip
                       /\ UNCHANGED in_cursor
       /\ UNCHANGED <<db_users, out_cursor, out_eval, api_storage,
                      sched_vars, qu_vars, fn_vars, cb_vars, am_vars>>

InputsInit ==
    /\ SchedIdle
    /\ FnIdle
    /\ CbIdle
    /\ PairsIdle
    /\ SensorsIdle /\ QueueIdle

InputsNext ==
    \/ \E p \in Partitions : MaterializeAsset(p)
    \/ \E p \in Partitions : RemoveAsset(p)
    \/ \E p \in Partitions : CreateUserFolder(p)
    \/ \E p \in Partitions : DeleteUserFolder(p)
    \/ InputsSensor

SpecInputs == InputsInit /\ [][InputsNext]_vars

\* ------------------------------------------------------ AzureQueueResource
\* resources/azure_queue_resource.py.  Caller 0 is the teardown's
\* _close_client; callers 1..NumCallers are the send_message coroutines that
\* queue_gemini_embeddings gathers.  Coroutines of one event loop interleave
\* only at an await that suspends, so each action runs from one suspension to
\* the next.
\* asyncio.Lock.acquire takes the lock at once when it is free and nobody
\* waits; otherwise the caller joins _waiters and is woken in arrival order.
LockFree == ~init_lock.locked /\ init_lock.waiters = <<>>

NeedsInitializationAlways == TRUE

\* line 28: if self._initialized: return
NeedsInitialization == ~initialized

\* send_message from line 67 on, once _ensure_initialized has returned: the
\* check of the client and the call of its send_message, with no suspension
\* in between.
AfterEnsure(c, client_now, log_now) ==
    IF client_now = "None"
    THEN /\ qu_pc' = [qu_pc EXCEPT ![c] = "raised"]
         /\ qu_log' = "client is not available"
    ELSE /\ qu_pc' = [qu_pc EXCEPT ![c] = "send_message"]
         /\ qu_log' = log_now

\* _ensure_initialized with the lock held (lines 28-43), up to its return,
\* to the exception of from_connection_string, or to the await of
\* create_queue.  waiters is _waiters once c holds the lock.
EnsureInitialized(c, waiters) ==
    IF ~NeedsInitialization
    THEN /\ init_lock' = [locked |-> FALSE, waiters |-> waiters]
         /\ UNCHANGED <<client, initialized>>
         /\ AfterEnsure(c, client, qu_log)
    ELSE \E made \in BOOLEAN :
            IF client = "None" /\ ~made
            THEN /\ init_lock' = [locked |-> FALSE, waiters |-> waiters]
                 /\ qu_pc' = [qu_pc EXCEPT ![c] = "raised"]
                 /\ qu_log' = "Initializing"
                 /\ UNCHANGED <<client, initialized>>
            ELSE /\ init_lock' = [locked |-> TRUE, waiters |-> waiters]
                 /\ client' = "client"
                 /\ qu_pc' = [qu_pc EXCEPT ![c] = "create_queue"]
                 /\ qu_log' = IF client = "None" THEN "Initializing" ELSE qu_log
                 /\ UNCHANGED initialized

\* _close_client with the lock held (lines 85-88), up to the await of close.
CloseLocked(waiters) ==
    IF client # "None"
    THEN /\ init_lock' = [locked |-> TRUE, waiters |-> waiters]
         /\ qu_pc' = [qu_pc EXCEPT ![0] = "close"]
         /\ qu_log' = "Closing"
         /\ UNCHANGED <<client, initialized>>
    ELSE /\ init_lock' = [locked |-> FALSE, waiters |-> waiters]
         /\ qu_pc' = [qu_pc EXCEPT ![0] = "idle"]
         /\ UNCHANGED <<client, initialized, qu_log>>

\* A call of send_message (lines 62-65, 24-27): a first call, or a later one
\* by a caller whose previous call has ended.
SendMessage(c) ==
    /\ c \in Senders
    /\ qu_pc[c] \in {"idle", "done", "raised"}
    /\ IF LockFree
       THEN EnsureInitialized(c, <<>>)
       ELSE /\ init_lock' = [init_lock EXCEPT !.waiters = Append(@, c)]
            /\ qu_pc' = [qu_pc EXCEPT ![c] = "acquire"]
            /\ UNCHANGED <<client, initialized, qu_log>>
    /\ UNCHANGED <<sched_vars, fn_vars, cb_vars, am_vars, sn_vars>>

\* The first waiter resumes after a release and holds the lock (line 27 for
\* a sender, line 84 for the teardown).
LockAcquired(c) ==
    /\ qu_pc[c] = "acquire"
    /\ ~init_lock.locked
    /\ init_lock.waiters # <<>>
    /\ Head(init_lock.waiters) = c
    /\ IF c = 0
       THEN CloseLocked(Tail(init_lock.waiters))
       ELSE EnsureInitialized(c, Tail(init_lock.waiters))
    /\ UNCHANGED <<sched_vars, fn_vars, cb_vars, am_vars, sn_vars>>

\* await self._client.create_queue() ends (lines 42-60): the queue was
\* created, it existed already, or the call failed.  After a success the
\* lock is released and send_message goes on; after a failure the client is
\* closed with the lock still held.
CreateQueueReturns(c, create_queue) ==
    /\ qu_pc[c] = "create_queue"
    /\ IF create_queue \in {"created", "exists"}
       THEN /\ initialized' = TRUE
            /\ init_lock' = [init_lock EXCEPT !.locked = FALSE]
            /\ UNCHANGED client
            /\ AfterEnsure(c, client, "initialized successfully")
       ELSE /\ qu_log' = "Failed to ensure"
            /\ IF client # "None"
               THEN /\ qu_pc' = [qu_pc EXCEPT ![c] = "cleanup"]
                    /\ UNCHANGED init_lock
               ELSE /\ qu_pc' = [qu_pc EXCEPT ![c] = "raised"]
                    /\ init_lock' = [init_lock EXCEPT !.locked = FALSE]
            /\ UNCHANGED <<client, initialized>>
    /\ UNCHANGED <<sched_vars, fn_vars, cb_vars, am_vars, sn_vars>>

\* The best-effort close after a failed create_queue ends, in either way
\* (lines 50-55): the client is dropped and the failure re-raised.
CleanupReturns(c) ==
    /\ qu_pc[c] = "cleanup"
    /\ client' = "None"
    /\ init_lock' = [init_lock EXCEPT !.locked = FALSE]
    /\ qu_pc' = [qu_pc EXCEPT ![c] = "raised"]
    /\ UNCHANGED <<initialized, qu_log>>
    /\ UNCHANGED <<sched_vars, fn_vars, cb_vars, am_vars, sn_vars>>

\* await self._client.send_message(message_string) ends (lines 74-79).
SendReturns(c, sent) ==
    /\ qu_pc[c] = "send_message"
    /\ qu_pc' = [qu_pc EXCEPT ![c] = IF sent THEN "done" ELSE "raised"]
    /\ qu_log' = IF sent THEN "Sent message" ELSE "Failed to send"
    /\ UNCHANGED <<client, initialized, init_lock>>
    /\ UNCHANGED <<sched_vars, fn_vars, cb_vars, am_vars, sn_vars>>

\* teardown_after_execution starts _close_client (lines 98-114, 81-84).
CloseClient ==
    /\ qu_pc[0] = "idle"
    /\ client # "None" \/ initialized
    /\ IF LockFree
       THEN CloseLocked(<<>>)
       ELSE /\ init_lock' = [init_lock EXCEPT !.waiters = Append(@, 0)]
            /\ qu_pc' = [qu_pc EXCEPT ![0] = "acquire"]
            /\ UNCHANGED <<client, initialized, qu_log>>
    /\ UNCHANGED <<sched_vars, fn_vars, cb_vars, am_vars, sn_vars>>

\* await self._client.close() of _close_client ends (lines 88-93).
CloseReturns(closed) ==
    /\ qu_pc[0] = "close"
    /\ client' = "None"
    /\ initialized' = FALSE
    /\ init_lock' = [init_lock EXCEPT !.locked = FALSE]
    /\ qu_pc' = [qu_pc EXCEPT ![0] = "idle"]
    /\ qu_log' = IF closed THEN "Closing" ELSE "Error closing"
    /\ UNCHANGED <<sched_vars, fn_vars, cb_vars, am_vars, sn_vars>>

QueueInit == SchedIdle /\ FnIdle /\ CbIdle /\ PairsIdle /\ SensorsIdle /\ QueueIdle

QueueNext ==
    \/ \E c \in Senders : SendMessage(c)
    \/ \E c \in QueueCallers : LockAcquired(c)
    \/ \E c \in Senders, create_queue \in {"created", "exists", "error"} :
          CreateQueueReturns(c, create_queue)
    \/ \E c \in Senders : CleanupReturns(c)
    \/ \E c \in Senders, sent \in BOOLEAN : SendReturns(c, sent)
    \/ CloseClient
    \/ \E closed \in BOOLEAN : CloseReturns(closed)

SpecQueue == QueueInit /\ [][QueueNext]_vars

\* ------------------------------------------------------------ properties
NoDuplicates(list) == \A i, j \in DOMAIN list : i # j => list[i] # list[j]

RowIndices(row) == row.common_indices \o row.user1_indices \o row.user2_indices

RECURSIVE AllIndices(_)
AllIndices(rows) ==
    IF rows = <<>> THEN <<>> ELSE RowIndices(Head(rows)) \o AllIndices(Tail(rows))

\* C1: every request generate_serendipity_prompt builds lists, for user 1 and
\* for user 2, only summaries whose row index is not in the exclusion set it
\* is given, and lists every such summary.
C1_RequestOmitsExcluded ==
    fn = "generate_serendipity_prompt" =>
        /\ (Range(fn_out.user1) \cup Range(fn_out.user2)) \cap fn_in.excluded_indices = {}
        /\ fn_out # EmptyPrompt =>
              /\ Range(fn_out.user1) =
                     Range(RowIdxs(fn_in.user1_summaries)) \ fn_in.excluded_indices
              /\ Range(fn_out.user2) =
                     Range(RowIdxs(fn_in.user2_summaries)) \ fn_in.excluded_indices

\* A request was built although a row of each user was excluded.
C1_Witness ==
    /\ fn = "generate_serendipity_prompt"
    /\ fn_out # EmptyPrompt
    /\ Range(RowIdxs(fn_in.user1_summaries)) \cap fn_in.excluded_indices # {}
    /\ Range(RowIdxs(fn_in.user2_summaries)) \cap fn_in.excluded_indices # {}

\* C2: after the duplicate pass, within every match group no row index occurs
\* more than once over the common, user-1 and user-2 lists of all its path
\* records.
C2_NoCrossRecordDuplicates ==
    fn = "fix_duplicates" =>
        \A mg \in MatchGroupIds : NoDuplicates(AllIndices(RowsOfGroup(fn_out, mg)))

\* Two records of one match group named the same index before the pass.
C2_Witness ==
    /\ fn = "fix_duplicates"
    /\ \E mg \in MatchGroupIds :
          /\ Len(RowsOfGroup(fn_in, mg)) >= 2
          /\ ~NoDuplicates(AllIndices(RowsOfGroup(fn_in, mg)))
          /\ AllIndices(RowsOfGroup(fn_out, mg)) # <<>>

\* The last request a match group's task issued.
LastRequest(mg) == requests[mg][Len(requests[mg])]

\* C4: whatever the oracle call ends in (it raises, it returns the failure
\* marker, its completion is no JSON object or is an empty or incomplete
\* object), the match group's pass goes on: the task does not end by an
\* exception.
C4_OracleErrorsNotFatal ==
    \A mg \in MatchGroupIds :
        outcome[mg] \in {"raise", "failure", "rejected"} => pc[mg] # "raised"

\* Unconsumed summaries of a cluster on each side under an exclusion set.
Unconsumed(summaries, exclusions_) ==
    {i \in DOMAIN summaries : summaries[i].row_idx \notin exclusions_}

\* C5: a match group never holds more path entries than
\* max_paths_per_match_group, nor more of a category than
\* ceil(max_paths_per_match_group * ratio), and every request is issued with
\* both counts below their quota and a non-empty active list.
C5_QuotasRespected ==
    \A mg \in MatchGroupIds :
        /\ TotalPaths(paths_by_category[mg], Categories) <= max_paths_per_match_group
        /\ \A c \in Categories : Len(paths_by_category[mg][c]) <= CategoryQuota(c)
        /\ \A i \in DOMAIN requests[mg] :
              /\ requests[mg][i].total_paths < max_paths_per_match_group
              /\ requests[mg][i].category_paths < CategoryQuota(requests[mg][i].category)
              /\ requests[mg][i].candidates # <<>>

\* A pass over a cluster that has items on both sides and a positive ratio
\* ended without any request because the quota (0) was already reached.
C5_Witness ==
    \E mg \in MatchGroupIds :
        /\ pc[mg] = "returned"
        /\ requests[mg] = <<>>
        /\ max_paths_per_match_group = 0
        /\ \E cid \in ClusterIds :
              /\ cluster_data[cid].match_group_id = mg
              /\ match_group_category_ratios(cluster_data[cid].category) > 0
              /\ Len(cluster_data[cid].summaries) > 0

\* C6: after a rejected response no path entry has been added and the selected
\* cluster's balance score has been computed again.
C6_RejectedIsRescored ==
    \A mg \in MatchGroupIds :
        outcome[mg] = "rejected" =>
            /\ TotalPaths(paths_by_category[mg], Categories) = LastRequest(mg).total_paths
            /\ LastRequest(mg).cid \in rescored[mg]

C8_AcceptedEmitsOnePath ==
    \A mg \in MatchGroupIds :
        outcome[mg] = "accepted" =>
            LET r == LastRequest(mg)
                entries == paths_by_category[mg][r.category]
            IN /\ Len(entries) = r.category_paths + 1
               /\ TotalPaths(paths_by_category[mg], Categories) = r.total_paths + 1
               /\ Range(RowIndices(entries[Len(entries)])) \subseteq exclusions[mg]
               /\ cluster_data[r.cid].iteration = entries[Len(entries)].iteration + 1

ActiveCids(mg) == {active_clusters[mg][i].cid : i \in DOMAIN active_clusters[mg]}

Exhausted(cid, exclusions_) ==
    \/ Unconsumed(cluster_data[cid].current_summaries, exclusions_) = {}
    \/ Unconsumed(cluster_data[cid].summaries, exclusions_) = {}

\* C9: a cluster with no unconsumed summary on one side under its match group's
\* exclusion set gets the sentinel (inf) from calculate_balance_scores, is not
\* in the active list and is not the cluster a request is issued for.
C9_SentinelExcluded ==
    \A cid \in ClusterIds :
        LET mg == cluster_data[cid].match_group_id
        IN Exhausted(cid, exclusions[mg]) =>
              /\ calculate_balance_scores(cluster_data[cid], exclusions[mg]).inf
              /\ cid \notin ActiveCids(mg)
              /\ \A i \in DOMAIN requests[mg] : requests[mg][i].cid # cid

\* A cohort with active clusters has started while a cluster of its category
\* in the same match group has no peer summary.
C9_Witness ==
    \E cid \in ClusterIds :
        LET mg == cluster_data[cid].match_group_id
        IN /\ Exhausted(cid, exclusions[mg])
           /\ pc[mg] = "loop"
           /\ category[mg] = cluster_data[cid].category
           /\ active_clusters[mg] # <<>>

LowestScore(candidates) ==
    CHOOSE v \in {candidates[i].score : i \in DOMAIN candidates} :
        \A i \in DOMAIN candidates : v <= candidates[i].score

\* C10 as stated: the cluster a request is issued for has the lowest score of
\* the active list, and of several with the lowest score it has the smallest
\* cluster id.
C10_TiesByClusterId ==
    \A mg \in MatchGroupIds :
        \A i \in DOMAIN requests[mg] :
            LET r == requests[mg][i]
                lowest == {r.candidates[k].cid :
                              k \in {k \in DOMAIN r.candidates :
                                        r.candidates[k].score = LowestScore(r.candidates)}}
            IN /\ r.cid \in lowest
               /\ \A c \in lowest : r.cid <= c

\* C10 amended: the cluster a request is issued for has the lowest score of the
\* active list, and of several with the lowest score it is the one that stands
\* first in the active list.
C10_TiesByListOrder ==
    \A mg \in MatchGroupIds :
        \A i \in DOMAIN requests[mg] :
            LET r == requests[mg][i]
                lowest == {k \in DOMAIN r.candidates :
                              r.candidates[k].score = LowestScore(r.candidates)}
            IN \E k \in lowest :
                  /\ r.candidates[k].cid = r.cid
                  /\ \A j \in lowest : k <= j

\* A request chosen among clusters of different scores whose lowest does not
\* stand first in the list.
C10_Witness ==
    \E mg \in MatchGroupIds :
        \E i \in DOMAIN requests[mg] :
            LET r == requests[mg][i]
            IN /\ Len(r.candidates) >= 2
               /\ r.candidates[1].score > LowestScore(r.candidates)
               /\ r.candidates[1].cid < r.cid

\* C11: no request is issued for a cluster whose category has ratio zero, such
\* a category is never the cohort being processed, and no path entry of such
\* a category is held, collected or returned.
C11_ZeroRatioSkipped ==
    /\ \A mg \in MatchGroupIds :
          /\ \A i \in DOMAIN requests[mg] :
                /\ match_group_category_ratios(requests[mg][i].category) > 0
                /\ match_group_category_ratios(
                       cluster_data[requests[mg][i].cid].category) > 0
          /\ \A c \in Categories :
                match_group_category_ratios(c) = 0 =>
                    /\ paths_by_category[mg][c] = <<>>
                    /\ category[mg] # c
                    /\ \A k \in DOMAIN sorted_categories[mg] :
                          sorted_categories[mg][k] # c
    /\ \A i \in DOMAIN paths : match_group_category_ratios(paths[i].category) > 0
    /\ \A i \in DOMAIN result_df :
          match_group_category_ratios(result_df[i].path.category) > 0

\* A match group with a zero-ratio cluster that has summaries on both sides
\* and a quota to spend: one whose pass returned, and one that issued a
\* request for another of its clusters.
C11_Witness ==
    /\ max_paths_per_match_group >= 1
    /\ \E mg \in MatchGroupIds :
          \E cid \in ClusterIds :
             /\ cluster_data[cid].match_group_id = mg
             /\ match_group_category_ratios(cluster_data[cid].category) = 0
             /\ cluster_data[cid].summaries # <<>>
             /\ \/ pc[mg] = "returned"
                \/ requests[mg] # <<>>

\* C12: a request is issued for a category only when no category of a
\* strictly higher ratio is still waiting for its cohort, and the requests of
\* a match group follow each other in descending ratio order.
C12_DescendingRatioOrder ==
    \A mg \in MatchGroupIds :
        /\ \A i, j \in DOMAIN requests[mg] :
              i < j => match_group_category_ratios(requests[mg][i].category)
                          >= match_group_category_ratios(requests[mg][j].category)
        /\ pc[mg] \in {"loop", "await"} =>
              \A k \in DOMAIN sorted_categories[mg] :
                  match_group_category_ratios(sorted_categories[mg][k])
                      <= match_group_category_ratios(category[mg])

\* A request for the lower-ratio category of a match group that also holds a
\* cluster of the higher-ratio category, whose cohort is over.
C12_Witness ==
    \E mg \in MatchGroupIds :
        /\ pc[mg] = "await"
        /\ category[mg] = "practical"
        /\ sorted_categories[mg] = <<>>
        /\ \E cid \in ClusterIds :
              /\ cluster_data[cid].match_group_id = mg
              /\ cluster_data[cid].category = "humanistic"

\* The cluster counts of the attempts made, in order.
AttemptCounts == SelectSeq(logger, LAMBDA r : r.msg = "attempt")

\* The records that tell of a stop short of the ceiling: "No improvement in
\* cluster sizes ... Using previous clustering." and "Reached maximum possible
\* clusters, breaking".
GaveUpRecords == {i \in DOMAIN logger : logger[i].msg \in {"no improvement", "reached maximum"}}

\* C13: when the clustering with a peer is over, either no cluster of the
\* labelling it yields is larger than max_items_per_cluster, or the log holds
\* a record that the loop stopped short of the ceiling.
C13_CeilingOrGaveUp ==
    cb_pc = "done" =>
        \/ LargestClusterSize(cluster_labels) <= max_items_per_cluster
        \/ GaveUpRecords # {}

\* C14 as stated: at most max_cluster_iterations attempts are made, and no
\* attempt is made with n1 + n2 clusters or more.
C14_AttemptsBelowItemCount ==
    /\ Len(AttemptCounts) <= max_cluster_iterations
    /\ \A i \in DOMAIN AttemptCounts : AttemptCounts[i].value < n1 + n2

\* C14 amended: at most max_cluster_iterations attempts are made, none with
\* more than n1 + n2 clusters, and one with exactly n1 + n2 clusters only as
\* the first attempt, when the ceiling is one conversation per cluster.
C14_AttemptsWithinItemCount ==
    /\ iteration <= max_cluster_iterations
    /\ Len(AttemptCounts) = iteration
    /\ \A i \in DOMAIN AttemptCounts :
          /\ AttemptCounts[i].value <= n1 + n2
          /\ AttemptCounts[i].value = n1 + n2 => i = 1 /\ max_items_per_cluster = 1

\* The retry budget of several attempts is used up with the ceiling unmet.
C14_Witness ==
    /\ cb_pc = "done"
    /\ max_cluster_iterations >= 2
    /\ Len(AttemptCounts) = max_cluster_iterations
    /\ LargestClusterSize(cluster_labels) > max_items_per_cluster
    /\ GaveUpRecords = {}

\* C15 as stated: 5 and 5 conversations, ceiling 4, budget 5 end in at least
\* 3 clusters, none larger than 4, after at most 5 attempts.
C15_ExampleMeetsCeiling ==
    (cb_pc = "done" /\ n1 = 5 /\ n2 = 5 /\ max_items_per_cluster = 4
                   /\ max_cluster_iterations = 5) =>
        /\ Len(cluster_labels) >= 3
        /\ LargestClusterSize(cluster_labels) <= 4
        /\ Len(AttemptCounts) <= 5

\* C15 amended: 5 and 5 conversations, ceiling 4, budget 5 end after at most
\* 5 attempts in at least 3 clusters, none larger than 4 unless an attempt
\* left the largest cluster as large as the attempt before: then the labelling
\* of the attempt before is the result, with a cluster larger than 4.
C15_ExampleMeetsCeilingOrFallsBack ==
    (cb_pc = "done" /\ n1 = 5 /\ n2 = 5 /\ max_items_per_cluster = 4
                   /\ max_cluster_iterations = 5) =>
        /\ Len(cluster_labels) >= 3
        /\ Len(AttemptCounts) <= 5
        /\ \/ LargestClusterSize(cluster_labels) <= 4
           \/ /\ logger[Len(logger)].msg = "no improvement"
              /\ cluster_labels = previous_cluster_labels
              /\ LargestClusterSize(current_cluster_labels)
                     = LargestClusterSize(previous_cluster_labels)

\* The example meets the ceiling with its fifth attempt.
C15_Witness ==
    /\ cb_pc = "done" /\ n1 = 5 /\ n2 = 5 /\ max_items_per_cluster = 4
    /\ max_cluster_iterations = 5
    /\ Len(AttemptCounts) = 5
    /\ LargestClusterSize(cluster_labels) = 4

\* The index lists of a row, with the id lists a remapped row carries for them.
IndexColumns(row) == <<row.common_indices, row.user1_indices, row.user2_indices>>

IdColumns(remapped) == <<remapped.common_conversation_ids,
                         remapped.user1_conversation_ids,
                         remapped.user2_conversation_ids>>

\* C16: remap_indices_to_conversation_ids raises and returns nothing when an
\* index of the table is no row of clusters_df; otherwise it returns every row
\* with three id lists as long as its index lists, each id the conversation id
\* of the index in its place, none missing.
C16_RemapAllOrNothing ==
    fn = "remap_indices_to_conversation_ids" =>
        IF \E i \in DOMAIN fn_in : \E col \in 1..3 :
              \E k \in DOMAIN IndexColumns(fn_in[i])[col] :
                  IndexColumns(fn_in[i])[col][k] \notin Rows
        THEN fn_out.raised /\ fn_out.rows = <<>>
        ELSE /\ ~fn_out.raised
             /\ Len(fn_out.rows) = Len(fn_in)
             /\ \A i \in DOMAIN fn_in : \A col \in 1..3 :
                   LET indices == IndexColumns(fn_in[i])[col]
                       ids == IdColumns(fn_out.rows[i])[col]
                   IN /\ fn_out.rows[i].path = fn_in[i]
                      /\ Len(ids) = Len(indices)
                      /\ \A k \in DOMAIN ids :
                            ids[k] # <<>> /\ ids[k] = <<"conversation", indices[k]>>

\* A table whose first row maps completely and whose second row holds an
\* index without a conversation id: the remapping raises.
C16_Witness ==
    /\ fn = "remap_indices_to_conversation_ids"
    /\ Len(fn_in) = 2
    /\ \A col \in 1..3 : \A k \in DOMAIN IndexColumns(fn_in[1])[col] :
          IndexColumns(fn_in[1])[col][k] \in Rows
    /\ \E col \in 1..3 : \E k \in DOMAIN IndexColumns(fn_in[2])[col] :
          IndexColumns(fn_in[2])[col][k] \notin Rows
    /\ fn_out.raised

\* ---- account matcher
\* The listed peers whose file has rows.
LoadablePeers ==
    {other_user_ids[i] : i \in {j \in DOMAIN other_user_ids :
                                   store[other_user_ids[j]].status = "ok"}}

\* result names min(K, loadable) distinct loadable peers with their scores,
\* no peer left out scores higher than one named, and scores never rise
\* along the list.
IsTopKByScore(result, K) ==
    /\ Len(result) = Min2(K, Cardinality(LoadablePeers))
    /\ \A i \in DOMAIN result :
          /\ result[i].user_id \in LoadablePeers
          /\ result[i].similarity = store[result[i].user_id].similarity
    /\ \A i, j \in DOMAIN result : i # j => result[i].user_id # result[j].user_id
    /\ \A uid \in LoadablePeers :
          (\A i \in DOMAIN result : result[i].user_id # uid)
             => \A i \in DOMAIN result : store[uid].similarity <= result[i].similarity
    /\ \A i, j \in DOMAIN result :
          i < j => result[i].similarity >= result[j].similarity

\* Peers of equal score stand in the order of their ids.
TiesByPeerId(result) ==
    \A i, j \in DOMAIN result :
       (i < j /\ result[i].similarity = result[j].similarity)
          => result[i].user_id < result[j].user_id

\* The two places where a ranking has been returned.
AssetRanked == pairs_pc = "ranked"
UtilRanked == pairs_pc = "util" /\ ~util_result.raised

AssetSkipsUnavailable ==
    (pairs_pc = "done" /\ other_user_ids # <<>> /\ emb1_list > 0)
       => /\ IsTopKByScore(top_users, config.top_k_users)
          /\ match_group_id = Len(top_users)
          /\ \A i \in DOMAIN top_users :
                \E r \in DOMAIN all_pairs :
                   /\ all_pairs[r].other_uid = top_users[i].user_id
                   /\ all_pairs[r].match_group_id = i - 1

\* The ranking of utils/find_top_k_users.py has ended: it has not raised and
\* it ranks the peers that can be loaded.
UtilSkipsUnavailable ==
    pairs_pc = "util"
       => /\ ~util_result.raised
          /\ IsTopKByScore(util_result.users, config.top_k_users)

\* C18: a peer whose items cannot be obtained (stored data missing, not
\* loadable, or empty) is skipped, the remaining peers are still ranked and
\* processed, and the run does not fail.
C18_UnavailablePeerSkipped == AssetSkipsUnavailable /\ UtilSkipsUnavailable

\* ---- balance scorer
\* The four floats calculate_balance_scores returns: the total and the three
\* terms of the dict.
ReturnedFloats(score) ==
    {[inf |-> score.inf, centi |-> v] :
        v \in {score.total, score.imbalance, score.magnitude_factor, score.dist}}

\* calculate_balance_scores was applied to a cluster that has no summary left
\* outside the exclusions on one of its sides.
ScoredWithEmptySide ==
    /\ fn = "calculate_balance_scores"
    /\ \/ Filter(fn_in.data.current_summaries, fn_in.exclusions) = <<>>
       \/ Filter(fn_in.data.summaries, fn_in.exclusions) = <<>>

\* C22 as stated: when either side of a cluster has no unconsumed items, the
\* value returned as the sentinel, for the total and for each of the three
\* components, is finite and never infinity.
C22_SentinelFinite ==
    ScoredWithEmptySide => \A f \in ReturnedFloats(fn_out) : ~f.inf

\* C22 amended: in that case the total and each of the three components is
\* infinity, and with items left on both sides none of them is.
C22_SentinelInfinite ==
    fn = "calculate_balance_scores"
       => IF ScoredWithEmptySide
          THEN \A f \in ReturnedFloats(fn_out) : f.inf
          ELSE \A f \in ReturnedFloats(fn_out) : ~f.inf

\* Both sides have summaries and the exclusions leave none on the peer's side.
C22_Witness ==
    /\ ScoredWithEmptySide
    /\ fn_in.data.summaries # <<>>
    /\ Filter(fn_in.data.current_summaries, fn_in.exclusions) # <<>>
    /\ fn_out.inf

\* ---- cluster builder: the labelling returned
\* The largest cluster sizes of the attempts made, as logged.
AttemptLargestSizes ==
    {logger[i].value : i \in {j \in DOMAIN logger :
                                 logger[j].msg \in {"success", "no improvement",
                                                    "exceeding max"}}}

StoppedAboveCeiling ==
    /\ cb_pc = "done"
    /\ LargestClusterSize(cluster_labels) > max_items_per_cluster

StoppedWithoutImprovement ==
    /\ cb_pc = "done"
    /\ \E i \in DOMAIN logger : logger[i].msg = "no improvement"

\* C25: when the builder stops without meeting the ceiling, the largest
\* cluster of the labelling it returns is no larger than the largest cluster
\* of any attempt of the run, and after an attempt without improvement the
\* labels returned are those of the attempt before it.
C25_ReturnsBestSoFar ==
    /\ StoppedAboveCeiling
          => \A size \in AttemptLargestSizes :
                LargestClusterSize(cluster_labels) <= size
    /\ StoppedWithoutImprovement
          => /\ cluster_labels = previous_cluster_labels
             /\ Len(cluster_labels) + 1 = Len(current_cluster_labels)

\* The third attempt did not improve on the second and the labels of the
\* second, still above the ceiling, are returned.
C25_Witness ==
    /\ StoppedAboveCeiling
    /\ StoppedWithoutImprovement
    /\ iteration = 3
    /\ cluster_labels # current_cluster_labels

\* ---- duplicate pass: what is kept
IndexLists(row) == <<row.common_indices, row.user1_indices, row.user2_indices>>

\* x stands in a list of rows before list c of row r: in an earlier row, or in
\* an earlier list of row r.
OccursBefore(rows, r, c, x) ==
    \E r0 \in 1..r, c0 \in 1..3 :
       /\ r0 < r \/ (r0 = r /\ c0 < c)
       /\ x \in Range(IndexLists(rows[r0])[c0])

\* List c of row r without the indices that stand earlier in the match group.
FirstOccurrences(rows, r, c) ==
    SelectSeq(IndexLists(rows[r])[c], LAMBDA x : ~OccursBefore(rows, r, c, x))

\* C26: the duplicate pass keeps, in every match group, exactly the first
\* occurrence of every row index (records in order; within a record common,
\* then user 1, then user 2), removes nothing else, and leaves the number of
\* records and their other fields as they were.
C26_KeepsFirstOccurrences ==
    fn = "fix_duplicates" =>
        /\ Len(fn_out) = Len(fn_in)
        /\ \A mg \in MatchGroupIds :
              LET before == RowsOfGroup(fn_in, mg)
                  after == RowsOfGroup(fn_out, mg)
              IN /\ Len(after) = Len(before)
                 /\ \A r \in DOMAIN before :
                       /\ \A c \in 1..3 :
                             IndexLists(after[r])[c] = FirstOccurrences(before, r, c)
                       /\ [after[r] EXCEPT !.common_indices = before[r].common_indices,
                                           !.user1_indices = before[r].user1_indices,
                                           !.user2_indices = before[r].user2_indices]
                             = before[r]

\* The second record of a match group loses the index of one list, which the
\* first record holds, and keeps the index of another list.
C26_Witness ==
    /\ fn = "fix_duplicates"
    /\ \E mg \in MatchGroupIds :
          LET before == RowsOfGroup(fn_in, mg)
              after == RowsOfGroup(fn_out, mg)
          IN /\ Len(before) = 2
             /\ \E c \in 1..3 : IndexLists(after[2])[c] = <<>>
             /\ \E c \in 1..3 : IndexLists(after[2])[c] # <<>>

\* ---- cluster ids
\* The cluster ids that the rows of a match group carry in the returned table.
StoredClusterIds(mg) ==
    {pairs_df[i].cluster_id :
        i \in {j \in DOMAIN pairs_df : pairs_df[j].match_group_id = mg}}

\* C28: no two clusters of different match groups are emitted with the same
\* cluster id, as the returned table stores it.
C28_ClusterIdsUnique ==
    pairs_pc = "done" =>
        \A mg1, mg2 \in 0..(NumPeers - 1) :
           mg1 # mg2 => StoredClusterIds(mg1) \cap StoredClusterIds(mg2) = {}

\* ---- outputs sensor: one partition per evaluation
\* An evaluation of outputs_sensor has returned.
OutputsEvaluated == out_eval' # out_eval \/ out_cursor' # out_cursor

\* What an evaluation does, "loaded" being the partitions that count as
\* successful and as errored when it starts: at most one partition is posted;
\* a partition in neither set is posted whenever the folder holds one, and an
\* errored one only when it holds none; a partition becomes successful only by
\* a success answer to its own post, and is errored after a failure answer or a
\* raising call.
OutputsContract(loaded) ==
    LET new == (asset_folder.files \ loaded.successful) \ loaded.errored
        posted == out_eval'.posted
        successful_after == Range(out_cursor'.successful)
        errored_after == Range(out_cursor'.errored)
    IN /\ Cardinality(posted) <= 1
       /\ posted \subseteq new \cup loaded.errored
       /\ new # {} => posted # {} /\ posted \subseteq new
       /\ posted \cap loaded.errored # {} => new = {}
       /\ \A p \in successful_after \ loaded.successful :
              p \in posted /\ out_eval'.response = "success"
       /\ out_eval'.response \in {"failure", "raise"} => posted \subseteq errored_after

\* C29 as claimed: each evaluation of outputs_sensor posts at most one
\* partition, a never-tried one (in neither list of the stored cursor) whenever
\* one exists and an errored one only otherwise; a partition is recorded as
\* successful only after a success answer for it, and as errored after a
\* failure answer or a raising call.
C29_OnePartitionByCursor ==
    [][OutputsEvaluated => OutputsContract(LoadCursor(out_cursor, {}))]_vars

\* C29 amended: the same, the users that the database already holds paths for
\* counting as successful while no cursor is stored; the evaluation records
\* them as successful without posting them.
C29_OnePartitionByCursorOrDatabase ==
    [][OutputsEvaluated => OutputsContract(LoadCursor(out_cursor, db_users))]_vars

\* A user of the database is recorded as successful and was not posted, and
\* the posted partition is recorded as errored.
C29_Witness ==
    /\ out_eval.kind = "result"
    /\ out_eval.response = "raise"
    /\ out_eval.posted \subseteq Range(out_cursor.errored)
    /\ \E p \in db_users : p \in Range(out_cursor.successful) /\ p \notin out_eval.posted

\* ---- inputs sensor: the cursor follows the user folders
\* An evaluation of inputs_sensor has returned.
InputsEvaluated == in_eval' # in_eval \/ in_cursor' # in_cursor

\* The state an evaluation starts from: the stored cursor, or the partitions
\* that have a file in the asset folder when no cursor is stored.
PreviousState ==
    IF in_cursor.present THEN Range(in_cursor.text) ELSE asset_folder.files

\* The user folders present.
FoldersPresent == api_storage.dirs

\* C30: after an evaluation of inputs_sensor that detects a difference the
\* stored cursor is the set of user folders present, one run request and the
\* partition-add request name exactly the folders absent from the previous
\* state, and the partition-delete request names exactly the entries of the
\* previous state whose folder is gone; when nothing differs no request is
\* issued and the cursor is unchanged.
C30_CursorFollowsFolders ==
    [][InputsEvaluated =>
         /\ in_eval'.kind = "result" =>
              /\ in_cursor'.present
              /\ Range(in_cursor'.text) = FoldersPresent
              /\ Len(in_cursor'.text) = Cardinality(FoldersPresent)
              /\ Range(in_eval'.run_requests) = FoldersPresent \ PreviousState
              /\ Len(in_eval'.run_requests)
                     = Cardinality(FoldersPresent \ PreviousState)
              /\ Range(in_eval'.add) = FoldersPresent \ PreviousState
              /\ Range(in_eval'.delete) = PreviousState \ FoldersPresent
         /\ FoldersPresent = PreviousState =>
              /\ in_eval'.kind = "skip"
              /\ in_eval'.run_requests = <<>>
              /\ in_eval'.add = <<>>
              /\ in_eval'.delete = <<>>
              /\ in_cursor' = in_cursor]_vars

\* An evaluation has added a folder and deleted an entry whose folder is gone,
\* and a folder of the previous state is still there.
C30_Witness ==
    /\ in_eval.kind = "result"
    /\ in_eval.add # <<>>
    /\ in_eval.delete # <<>>
    /\ in_cursor.present
    /\ Range(in_cursor.text) \ Range(in_eval.add) # {}

\* ---- scheduler: every iteration makes progress
\* C31: whatever the oracle answers, an iteration of a cohort's loop that has
\* asked the oracle goes back to the loop's test having added a path entry,
\* enlarged the exclusion set or shortened the active list, so that the loop
\* ends by one of its stop conditions after finitely many iterations.
C31_IterationsMakeProgress ==
    [][\A mg \in MatchGroupIds :
         (pc[mg] = "await" /\ pc'[mg] # "await") =>
            /\ pc'[mg] = "loop"
            /\ \/ TotalPaths(paths_by_category'[mg], Categories)
                     > TotalPaths(paths_by_category[mg], Categories)
               \/ (exclusions[mg] \subseteq exclusions'[mg]
                     /\ exclusions'[mg] # exclusions[mg])
               \/ Len(active_clusters'[mg]) < Len(active_clusters[mg])]_vars

\* ---- path entries and the request
\* The row indices of a path entry.
EntryIndices(entry) ==
    Range(entry.common_indices) \cup Range(entry.user1_indices)
        \cup Range(entry.user2_indices)

ThreeSetsNonEmpty(row) ==
    /\ row.common_conversation_ids # <<>>
    /\ row.user1_conversation_ids # <<>>
    /\ row.user2_conversation_ids # <<>>

AwaitedGroups == {tasks[i] : i \in {j \in DOMAIN tasks : j < main_pc.next}}

RECURSIVE CollectedPaths(_)
\* The path entries of the awaited tasks that returned, in the order awaited.
CollectedPaths(i) ==
    IF i = 0 THEN <<>>
    ELSE CollectedPaths(i - 1)
            \o (IF pc[tasks[i]] = "returned" THEN task_result[tasks[i]] ELSE <<>>)

\* C34: a match group's task that ended by an exception is logged and nothing
\* else: the other tasks are still awaited, what they returned is collected,
\* the account's result is built, and it holds no path entry of the failed
\* match group.
C34_FailureConfined ==
    /\ \A mg \in AwaitedGroups : (pc[mg] = "raised") <=> (mg \in error_log)
    /\ error_log \subseteq AwaitedGroups
    /\ paths = CollectedPaths(Min2(main_pc.next - 1, Len(tasks)))
    /\ \A i \in DOMAIN paths : paths[i].match_group_id \notin error_log
    /\ \A i \in DOMAIN result_df : result_df[i].path.match_group_id \notin error_log
    /\ (\E mg \in MatchGroupIds : pc[mg] = "raised") => main_pc.at # "failed"
    /\ main_pc.at = "done" => AwaitedGroups = Range(tasks)

\* The first task awaited ended by an exception and was logged; the second
\* returned and was awaited after it, and the result was built.
C34_Witness ==
    /\ main_pc.at = "done"
    /\ Len(tasks) = 2
    /\ pc[tasks[1]] = "raised"
    /\ tasks[1] \in error_log
    /\ pc[tasks[2]] = "returned"
    /\ tasks[2] \notin error_log

\* ---- every conversation in exactly one cluster
RECURSIVE EmittedCount(_, _)
\* The conversations of one side in the rows emitted.
EmittedCount(rows, side) ==
    IF rows = <<>> THEN 0
    ELSE (IF side = 1 THEN Head(rows).u1 ELSE Head(rows).u2)
            + EmittedCount(Tail(rows), side)

\* C35: on every exit of the retry loop no label lies outside the cluster
\* indices that are iterated, and the clusters emitted for the match group
\* hold every conversation of the current user and of the peer once: as many
\* as there are on each side, no cluster index twice.
C35_EveryItemInOneCluster ==
    /\ cb_pc = "done" => Len(cluster_labels) <= n_clusters
    /\ (cb_pc = "idle" /\ match_group_id = 1) =>
          /\ EmittedCount(all_pairs, 1) = n1
          /\ EmittedCount(all_pairs, 2) = n2
          /\ \A i, j \in DOMAIN all_pairs :
                i # j => all_pairs[i].cluster_id # all_pairs[j].cluster_id
          /\ \A i \in DOMAIN all_pairs :
                /\ all_pairs[i].match_group_id = 0
                /\ all_pairs[i].cluster_id < n_clusters

\* The loop was left without improvement, with the previous attempt's labels
\* and one cluster index more than they use, and the clusters were emitted.
C35_Witness ==
    /\ cb_pc = "idle"
    /\ match_group_id = 1
    /\ \E i \in DOMAIN logger : logger[i].msg = "no improvement"
    /\ cluster_labels = previous_cluster_labels
    /\ Len(cluster_labels) < n_clusters
    /\ Len(all_pairs) = Len(cluster_labels)
    /\ all_pairs # <<>>

\* ---- outputs sensor: a failing partition does not hold up the others
\* The partitions that count as successful and as errored at the next
\* evaluation.
CountedSuccessful == LoadCursor(out_cursor, db_users).successful

CountedErrored == LoadCursor(out_cursor, db_users).errored

\* Every post of partition p is answered with success.
AlwaysSucceeds(p) == p \in out_eval.posted => out_eval.response = "success"

\* C36: under repeated evaluation of outputs_sensor, a partition whose file
\* stays in the asset folder and whose notification succeeds whenever it is
\* attempted is eventually counted as successful, whatever happens to the
\* other partitions' notifications; and the successful and the errored
\* partitions are disjoint in every state.
C36_GoodPartitionsRecorded ==
    /\ \A p \in Partitions :
          ([]AlwaysSucceeds(p) /\ <>[](p \in asset_folder.files))
              => <>(p \in CountedSuccessful)
    /\ [](CountedSuccessful \cap CountedErrored = {})

\* A partition has been posted and recorded as successful while another one,
\* posted before and after it, is errored again.
C36_Witness ==
    /\ out_eval.kind = "result"
    /\ out_eval.response = "failure"
    /\ out_eval.posted \subseteq CountedErrored
    /\ \E p \in CountedSuccessful \ db_users : p \in asset_folder.files

\* A caller is inside the initialisation: awaiting create_queue, or closing
\* the client after create_queue failed.
Initializing(c) == qu_pc[c] \in {"create_queue", "cleanup"}

\* The step begins an initialisation: a client is made, or a caller starts
\* to await create_queue.
InitializationBegins ==
    \/ client = "None" /\ client' # "None"
    \/ \E c \in Senders : qu_pc[c] # "create_queue" /\ qu_pc'[c] = "create_queue"

\* The step ends caller c's initialisation with an exception.
InitializationFails(c) ==
    /\ qu_pc'[c] = "raised"
    /\ \/ Initializing(c)
       \/ qu_pc[c] \in {"idle", "done", "acquire"} /\ ~initialized

\* The step hands caller c's message to the client.
MessageSent(c) == qu_pc[c] # "send_message" /\ qu_pc'[c] = "send_message"

\* C37: for any number of concurrent send_message calls on one resource, at
\* most one caller at a time is inside client and queue creation, and it holds
\* the lock; once the resource is initialised no initialisation begins until
\* the client is closed; a message is handed to the client only when the
\* resource is initialised and has a client; and an initialisation that fails
\* leaves the resource uninitialised, without a client and with the lock
\* released, so that the next call initialises again.
C37_InitializedOnceUnderLock ==
    /\ [](/\ Cardinality({c \in Senders : Initializing(c)}) <= 1
          /\ \A c \in Senders : Initializing(c) =>
                init_lock.locked /\ ~initialized /\ qu_pc[0] # "close")
    /\ [][InitializationBegins => ~initialized]_vars
    /\ [][\A c \in Senders : MessageSent(c) =>
             initialized' /\ client' # "None"]_vars
    /\ [][\A c \in Senders : InitializationFails(c) =>
             /\ ~initialized'
             /\ client' = "None"
             /\ ~init_lock'.locked]_vars

\* One caller's initialisation failed, a second caller initialised the
\* resource after it and is sending, and a third is still waiting for the
\* lock.
C37_Witness ==
    /\ qu_log = "initialized successfully"
    /\ initialized
    /\ \E c1, c2, c3 \in Senders :
          /\ qu_pc[c1] = "raised"
          /\ qu_pc[c2] = "send_message"
          /\ qu_pc[c3] = "acquire"

====
